---- MODULE Spec2Model ----
(***************************************************************************)
(* AskStash guest mode: the browser-side store (GuestService), the page    *)
(* lifecycle listeners, the AuthProvider and the DashboardPage handlers,   *)
(* as a state machine over a localStorage shared by the tabs of one        *)
(* origin.  Strings are TLA+ strings; Date.now() is the variable now.      *)
(***************************************************************************)
EXTENDS Integers, Sequences, FiniteSets, TLC

\* ---------------------------------------------------------------- bounds
\* how many clock ticks, uploads, sends, deletions and sign-ins a run of the
\* application takes in all; how many calls a run of the service takes
MaxOps == 3
MaxCalls == 3

\* ------------------------------------------------------ program constants
\* guestService.js:266  timeDiff > 30 * 60 * 1000
ExpiryMs == 30 * 60 * 1000

Tabs == {"A", "B"}
\* the clock advances by a millisecond, by ten minutes or by thirty minutes
TickSteps == {1, 10 * 60 * 1000, ExpiryMs}

VARIABLES
  now,            \* Date.now(), milliseconds
  localStorage,   \* key -> <<>> (absent) or <<value>>
  page,           \* tab -> "closed" | "open" | "crashed" (loaded, nothing rendered)
  visibility,     \* tab -> document.visibilityState
  auth,           \* tab -> AuthProvider state [user, isGuestMode]
  dash,           \* tab -> DashboardPage state (meaningful while mounted)
  inflight,       \* set of requests awaiting their fetch
  last,           \* the handler that ran last and what it returned
  budget,         \* how many bounded operations remain
  storage         \* "ok" | "full" (setItem raises) | "disabled" (every access raises)

vars == <<now, localStorage, page, visibility, auth, dash, inflight, last, budget,
          storage>>

\* ------------------------------------------------------------- strings
Digits == "0123456789"

\* Number.prototype.toString() of a non-negative integer
RECURSIVE toString(_)
toString(n) ==
  IF n < 10 THEN SubSeq(Digits, n + 1, n + 1)
  ELSE toString(n \div 10) \o SubSeq(Digits, (n % 10) + 1, (n % 10) + 1)

DigitValue(c) == CHOOSE d \in 0..9 : SubSeq(Digits, d + 1, d + 1) = c
IsDigit(c) == \E d \in 0..9 : SubSeq(Digits, d + 1, d + 1) = c

NaN == -1

\* parseInt(s, 10) on a string without sign or leading blanks: the value of
\* the longest prefix of digits, NaN when there is none
RECURSIVE ParseDigits(_, _, _)
ParseDigits(s, i, acc) ==
  IF i > Len(s) \/ ~IsDigit(SubSeq(s, i, i)) THEN acc
  ELSE ParseDigits(s, i + 1, acc * 10 + DigitValue(SubSeq(s, i, i)))

parseInt(s) ==
  IF Len(s) = 0 \/ ~IsDigit(SubSeq(s, 1, 1)) THEN NaN ELSE ParseDigits(s, 1, 0)

Upper == "ABCDEFGHIJKLMNOPQRSTUVWXYZ"
Lower == "abcdefghijklmnopqrstuvwxyz"

LowerChar(c) ==
  IF \E i \in 1..26 : SubSeq(Upper, i, i) = c
  THEN LET i == CHOOSE j \in 1..26 : SubSeq(Upper, j, j) = c IN SubSeq(Lower, i, i)
  ELSE c

RECURSIVE toLowerCase(_)
toLowerCase(s) ==
  IF Len(s) = 0 THEN ""
  ELSE LowerChar(SubSeq(s, 1, 1)) \o toLowerCase(SubSeq(s, 2, Len(s)))

startsWith(s, p) == Len(s) >= Len(p) /\ SubSeq(s, 1, Len(p)) = p
endsWith(s, p) == Len(s) >= Len(p) /\ SubSeq(s, Len(s) - Len(p) + 1, Len(s)) = p

\* new Date().toISOString(): an injective rendering of the millisecond clock
toISOString(t) == [iso |-> t]

\* ------------------------------------------------------------- sequences
\* Array.prototype.join on an array of strings
RECURSIVE join(_, _)
join(s, sep) ==
  IF s = <<>> THEN ""
  ELSE IF Len(s) = 1 THEN s[1]
  ELSE s[1] \o sep \o join(Tail(s), sep)

includes(s, x) == \E i \in 1..Len(s) : s[i] = x

\* ------------------------------------------------------------- storage
Keys == {"guestMode", "guestDocuments", "guestChatHistory",
         "guestModeLastActive", "token", "user"}

Absent == <<>>
\* the browser's Storage: with storage disabled every access to localStorage
\* raises; with the quota exhausted setItem raises, the rest works
StorageModes == {"ok", "full", "disabled"}
Readable == storage # "disabled"
Writable == storage = "ok"

getItem(ls, k) == ls[k]
setItem(ls, k, v) == [ls EXCEPT ![k] = <<v>>]
removeItem(ls, k) == [ls EXCEPT ![k] = <<>>]

\* JSON.stringify of an array of records: the text is modelled by the value
\* it denotes.  An optional field is held in memory as <<>> (undefined) or
\* <<v>>; stringify leaves an undefined field out and writes v otherwise.
Undefined == <<>>
OptionalFields == {"context_documents"}
DropUndefined(r) ==
  LET keep == {f \in DOMAIN r : f \in OptionalFields => r[f] # Undefined}
  IN [f \in keep |-> IF f \in OptionalFields THEN r[f][1] ELSE r[f]]
JSONstringify(arr) == [json |-> [i \in 1..Len(arr) |-> DropUndefined(arr[i])]]
WrapOptional(r) ==
  [f \in DOMAIN r |-> IF f \in OptionalFields THEN <<r[f]>> ELSE r[f]]
JSONparse(text) == [i \in 1..Len(text.json) |-> WrapOptional(text.json[i])]
\* a stored text JSON.parse raises a SyntaxError on
Unparseable == [garbage |-> "{oops"]
IsJSON(text) == "json" \in DOMAIN text
\* obj.f on an object that may lack the property
Field(r, f) == IF f \in DOMAIN r THEN r[f] ELSE Undefined

\* -------------------------------------------------------- GuestService
documentsKey == "guestDocuments"
chatHistoryKey == "guestChatHistory"

\* mutant: the catch block returns the error as an entry of the array
getDocuments_ReturnsError(ls) ==
  IF ~Readable THEN <<>>
  ELSE LET stored == getItem(ls, documentsKey)
       IN IF stored = Absent THEN <<>>
          ELSE IF IsJSON(stored[1]) THEN JSONparse(stored[1])
          ELSE <<[filename |-> "SyntaxError", file_type |-> "unknown", content |-> "",
                  id |-> "", created_at |-> toISOString(0)]>>

\* the catch covers getItem raising and JSON.parse raising
getDocuments(ls) ==
  IF ~Readable THEN <<>>
  ELSE LET stored == getItem(ls, documentsKey)
       IN IF stored = Absent THEN <<>>
          ELSE IF IsJSON(stored[1]) THEN JSONparse(stored[1])
          ELSE <<>>

\* raised: setItem raised and nothing was written or returned
\* variant: the write holds the new document alone
saveDocument_Overwrites(ls, documentData, t) ==
  LET newDocument == [filename |-> documentData.filename,
                      file_type |-> documentData.file_type,
                      content |-> documentData.content,
                      id |-> toString(t),
                      created_at |-> toISOString(t)]
  IN IF Writable
     THEN [ls |-> setItem(ls, documentsKey, JSONstringify(<<newDocument>>)),
           ret |-> newDocument, raised |-> FALSE]
     ELSE [ls |-> ls, ret |-> newDocument, raised |-> TRUE]

\* variant: the new document is put in front of the ones read
saveDocument_Prepends(ls, documentData, t) ==
  LET documents == getDocuments(ls)
      newDocument == [filename |-> documentData.filename,
                      file_type |-> documentData.file_type,
                      content |-> documentData.content,
                      id |-> toString(t),
                      created_at |-> toISOString(t)]
  IN IF Writable
     THEN [ls |-> setItem(ls, documentsKey, JSONstringify(<<newDocument>> \o documents)),
           ret |-> newDocument, raised |-> FALSE]
     ELSE [ls |-> ls, ret |-> newDocument, raised |-> TRUE]

saveDocument(ls, documentData, t) ==
  LET documents == getDocuments(ls)
      newDocument == [filename |-> documentData.filename,
                      file_type |-> documentData.file_type,
                      content |-> documentData.content,
                      id |-> toString(t),
                      created_at |-> toISOString(t)]
  IN IF Writable
     THEN [ls |-> setItem(ls, documentsKey, JSONstringify(Append(documents, newDocument))),
           ret |-> newDocument, raised |-> FALSE]
     ELSE [ls |-> ls, ret |-> newDocument, raised |-> TRUE]

\* mutant: the filter keeps the matching documents instead of the others
deleteDocument_Inverted(ls, documentId) ==
  LET documents == getDocuments(ls)
      Keep(doc) == doc.id = documentId
      filteredDocuments == SelectSeq(documents, Keep)
  IN [ls |-> setItem(ls, documentsKey, JSONstringify(filteredDocuments)),
      ret |-> TRUE]

\* mutant: the catch block reports success as well
deleteDocument_AlwaysTrue(ls, documentId) ==
  LET documents == getDocuments(ls)
      Keep(doc) == doc.id # documentId
      filteredDocuments == SelectSeq(documents, Keep)
  IN IF Writable
     THEN [ls |-> setItem(ls, documentsKey, JSONstringify(filteredDocuments)),
           ret |-> TRUE]
     ELSE [ls |-> ls, ret |-> TRUE]

\* setItem raising is caught: nothing is written and false is returned
\* variant: a matching id empties the collection
deleteDocument_ClearsAll(ls, documentId) ==
  LET documents == getDocuments(ls)
      Keep(doc) == doc.id # documentId
      filteredDocuments == IF SelectSeq(documents, Keep) = documents
                           THEN documents ELSE <<>>
  IN IF Writable
     THEN [ls |-> setItem(ls, documentsKey, JSONstringify(filteredDocuments)),
           ret |-> TRUE]
     ELSE [ls |-> ls, ret |-> FALSE]

deleteDocument(ls, documentId) ==
  LET documents == getDocuments(ls)
      Keep(doc) == doc.id # documentId
      filteredDocuments == SelectSeq(documents, Keep)
  IN IF Writable
     THEN [ls |-> setItem(ls, documentsKey, JSONstringify(filteredDocuments)),
           ret |-> TRUE]
     ELSE [ls |-> ls, ret |-> FALSE]

getDocument(ls, documentId) ==
  LET documents == getDocuments(ls)
      hits == {i \in 1..Len(documents) : documents[i].id = documentId}
  IN IF hits = {} THEN <<>>
     ELSE <<documents[CHOOSE i \in hits : \A j \in hits : i <= j]>>

getChatHistory(ls) ==
  IF ~Readable THEN <<>>
  ELSE LET stored == getItem(ls, chatHistoryKey)
       IN IF stored = Absent THEN <<>>
          ELSE IF IsJSON(stored[1]) THEN JSONparse(stored[1])
          ELSE <<>>

\* mutant: the context documents of the message are not stored
saveChatMessage_DropsContext(ls, messageData, t) ==
  LET history == getChatHistory(ls)
      newMessage == [message |-> messageData.message,
                     response |-> messageData.response,
                     context_documents |-> Undefined,
                     id |-> toString(t),
                     created_at |-> toISOString(t)]
  IN IF Writable
     THEN [ls |-> setItem(ls, chatHistoryKey, JSONstringify(Append(history, newMessage))),
           ret |-> newMessage, raised |-> FALSE]
     ELSE [ls |-> ls, ret |-> newMessage, raised |-> TRUE]

saveChatMessage(ls, messageData, t) ==
  LET history == getChatHistory(ls)
      newMessage == [message |-> messageData.message,
                     response |-> messageData.response,
                     context_documents |-> messageData.context_documents,
                     id |-> toString(t),
                     created_at |-> toISOString(t)]
  IN IF Writable
     THEN [ls |-> setItem(ls, chatHistoryKey, JSONstringify(Append(history, newMessage))),
           ret |-> newMessage, raised |-> FALSE]
     ELSE [ls |-> ls, ret |-> newMessage, raised |-> TRUE]

\* mutant: the guest-mode flag is left in place
clearAllData_KeepsFlag(ls) ==
  IF Readable
  THEN removeItem(removeItem(ls, documentsKey), chatHistoryKey)
  ELSE ls

\* with storage disabled the first removeItem raises and nothing is removed
clearAllData(ls) ==
  IF Readable
  THEN removeItem(removeItem(removeItem(ls, documentsKey), chatHistoryKey), "guestMode")
  ELSE ls

\* ---- the text JSON.stringify produces, as far as getStorageInfo needs it
\* a string's characters as they stand between the quotes of a JSON string:
\* quote, backslash and newline take two characters each
RECURSIVE Escape(_)
Escape(s) ==
  IF Len(s) = 0 THEN ""
  ELSE IF Len(s) = 1 THEN
    IF s = "\"" THEN "\\\""
    ELSE IF s = "\\" THEN "\\\\"
    ELSE IF s = "\n" THEN "\\n"
    ELSE s
  ELSE Escape(SubSeq(s, 1, Len(s) \div 2))
         \o Escape(SubSeq(s, Len(s) \div 2 + 1, Len(s)))

Quote(s) == "\"" \o Escape(s) \o "\""

RECURSIVE Pad(_, _)
Pad(text, width) == IF Len(text) >= width THEN text ELSE Pad("0" \o text, width)

\* Date.prototype.toISOString for a time within the first day of the epoch
ISOText(t) ==
  "1970-01-01T" \o Pad(toString((t \div 3600000) % 24), 2)
    \o ":" \o Pad(toString((t \div 60000) % 60), 2)
    \o ":" \o Pad(toString((t \div 1000) % 60), 2)
    \o "." \o Pad(toString(t % 1000), 3) \o "Z"

\* JSON.stringify(response.context_sources): [{"id":..,"filename":..},..]
SourcesText(sources) ==
  "[" \o join([i \in 1..Len(sources) |->
                 "{\"id\":" \o Quote(sources[i].id)
                   \o ",\"filename\":" \o Quote(sources[i].filename) \o "}"], ",")
      \o "]"

\* one property of a stored record as "name":value
PropertyText(r, f) ==
  Quote(f) \o ":" \o
    (IF f = "created_at" THEN Quote(ISOText(r[f].iso))
     ELSE IF f = "context_documents" THEN Quote(SourcesText(r[f].json))
     ELSE Quote(r[f]))

RECURSIVE PropertiesLength(_, _)
PropertiesLength(r, fs) ==
  IF fs = {} THEN 0
  ELSE LET f == CHOOSE g \in fs : TRUE
       IN Len(PropertyText(r, f)) + PropertiesLength(r, fs \ {f})

\* JSON.stringify(object).length: braces, properties, commas between them
ObjectLength(r) ==
  2 + PropertiesLength(r, DOMAIN r)
    + (IF DOMAIN r = {} THEN 0 ELSE Cardinality(DOMAIN r) - 1)

RECURSIVE ObjectsLength(_)
ObjectsLength(arr) ==
  IF arr = <<>> THEN 0
  ELSE ObjectLength(DropUndefined(Head(arr))) + ObjectsLength(Tail(arr))

\* JSON.stringify(array).length: brackets, elements, commas between them
JSONstringifyLength(arr) ==
  2 + ObjectsLength(arr) + (IF Len(arr) = 0 THEN 0 ELSE Len(arr) - 1)

\* Number.prototype.toFixed(1) of num / den for a power of two den: the
\* quotient is exact, and the nearest tenth is taken, the larger on a tie
toFixed1(num, den) ==
  LET tenths == (20 * num + den) \div (2 * den)
  IN toString(tenths \div 10) \o "." \o toString(tenths % 10)

\* variant: a total of exactly 1024 is still given in bytes
estimatedSize_InclusiveBytes(totalBytes) ==
  IF totalBytes <= 1024 THEN toString(totalBytes) \o " bytes"
  ELSE IF totalBytes < 1024 * 1024 THEN toFixed1(totalBytes, 1024) \o " KB"
  ELSE toFixed1(totalBytes, 1024 * 1024) \o " MB"

estimatedSize(totalBytes) ==
  IF totalBytes < 1024 THEN toString(totalBytes) \o " bytes"
  ELSE IF totalBytes < 1024 * 1024 THEN toFixed1(totalBytes, 1024) \o " KB"
  ELSE toFixed1(totalBytes, 1024 * 1024) \o " MB"

getStorageInfo(ls) ==
  LET documents == getDocuments(ls)
      chatHistory == getChatHistory(ls)
      totalBytes == JSONstringifyLength(documents) + JSONstringifyLength(chatHistory)
  IN [documentsCount |-> Len(documents),
      chatMessagesCount |-> Len(chatHistory),
      estimatedSize |-> estimatedSize(totalBytes)]

\* the block of one document in the context sent to the backend
DocumentBlock(doc) == "--- Document: " \o doc.filename \o " ---\n" \o doc.content
SourceOf(doc) == [id |-> doc.id, filename |-> doc.filename]

\* mutant: the blocks are joined by a single newline
BuildContext_SingleNewline(ls, selectedDocuments, useAllDocuments) ==
  IF useAllDocuments THEN
    LET allDocs == getDocuments(ls)
    IN [context |-> join([i \in 1..Len(allDocs) |-> DocumentBlock(allDocs[i])],
                        "\n"),
        contextSources |-> [i \in 1..Len(allDocs) |-> SourceOf(allDocs[i])]]
  ELSE IF selectedDocuments # Undefined /\ Len(selectedDocuments[1]) > 0 THEN
    LET allDocs == getDocuments(ls)
        Chosen(doc) == includes(selectedDocuments[1], doc.id)
        selectedDocs == SelectSeq(allDocs, Chosen)
    IN [context |-> join([i \in 1..Len(selectedDocs) |-> DocumentBlock(selectedDocs[i])],
                        "\n\n"),
        contextSources |-> [i \in 1..Len(selectedDocs) |-> SourceOf(selectedDocs[i])]]
  ELSE [context |-> "", contextSources |-> <<>>]

\* mutant: the selected documents are taken in the order of the selection
RECURSIVE InSelectionOrder(_, _)
InSelectionOrder(docs, ids) ==
  IF ids = <<>> THEN <<>>
  ELSE LET Is(doc) == doc.id = Head(ids)
       IN SelectSeq(docs, Is) \o InSelectionOrder(docs, Tail(ids))

BuildContext_SelectionOrder(ls, selectedDocuments, useAllDocuments) ==
  IF useAllDocuments THEN
    LET allDocs == getDocuments(ls)
    IN [context |-> join([i \in 1..Len(allDocs) |-> DocumentBlock(allDocs[i])],
                        "\n\n"),
        contextSources |-> [i \in 1..Len(allDocs) |-> SourceOf(allDocs[i])]]
  ELSE IF selectedDocuments # Undefined /\ Len(selectedDocuments[1]) > 0 THEN
    LET allDocs == getDocuments(ls)
        selectedDocs == InSelectionOrder(allDocs, selectedDocuments[1])
    IN [context |-> join([i \in 1..Len(selectedDocs) |-> DocumentBlock(selectedDocs[i])],
                        "\n\n"),
        contextSources |-> [i \in 1..Len(selectedDocs) |-> SourceOf(selectedDocs[i])]]
  ELSE [context |-> "", contextSources |-> <<>>]

\* mutant: an empty selection is taken to mean every document
BuildContext_EmptySelectsAll(ls, selectedDocuments, useAllDocuments) ==
  IF useAllDocuments \/ (selectedDocuments # Undefined /\ Len(selectedDocuments[1]) = 0)
  THEN
    LET allDocs == getDocuments(ls)
    IN [context |-> join([i \in 1..Len(allDocs) |-> DocumentBlock(allDocs[i])],
                        "\n\n"),
        contextSources |-> [i \in 1..Len(allDocs) |-> SourceOf(allDocs[i])]]
  ELSE IF selectedDocuments # Undefined /\ Len(selectedDocuments[1]) > 0 THEN
    LET allDocs == getDocuments(ls)
        Chosen(doc) == includes(selectedDocuments[1], doc.id)
        selectedDocs == SelectSeq(allDocs, Chosen)
    IN [context |-> join([i \in 1..Len(selectedDocs) |-> DocumentBlock(selectedDocs[i])],
                        "\n\n"),
        contextSources |-> [i \in 1..Len(selectedDocs) |-> SourceOf(selectedDocs[i])]]
  ELSE [context |-> "", contextSources |-> <<>>]

\* generateAIResponse up to its fetch: the request body.  selectedDocuments
\* is <<>> for undefined, <<ids>> for an array; useAllDocuments is a boolean
BuildContext(ls, selectedDocuments, useAllDocuments) ==
  IF useAllDocuments THEN
    LET allDocs == getDocuments(ls)
    IN [context |-> join([i \in 1..Len(allDocs) |-> DocumentBlock(allDocs[i])],
                        "\n\n"),
        contextSources |-> [i \in 1..Len(allDocs) |-> SourceOf(allDocs[i])]]
  ELSE IF selectedDocuments # Undefined /\ Len(selectedDocuments[1]) > 0 THEN
    LET allDocs == getDocuments(ls)
        Chosen(doc) == includes(selectedDocuments[1], doc.id)
        selectedDocs == SelectSeq(allDocs, Chosen)
    IN [context |-> join([i \in 1..Len(selectedDocs) |-> DocumentBlock(selectedDocs[i])],
                        "\n\n"),
        contextSources |-> [i \in 1..Len(selectedDocs) |-> SourceOf(selectedDocs[i])]]
  ELSE [context |-> "", contextSources |-> <<>>]

\* what fetch + response.ok + response.json() can yield
ChatReplies == {"Sure.", ""}
ChatOutcomes ==
  {[kind |-> "ok", response |-> r] : r \in ChatReplies}
    \cup {[kind |-> "status", response |-> ""], [kind |-> "network", response |-> ""]}

ErrorText(outcome) ==
  IF outcome.kind = "status" THEN "Error: Failed to get AI response"
  ELSE "TypeError: Failed to fetch"

\* mutant: the catch block reports the context it had assembled
AIResult_KeepsSources(contextSources, outcome) ==
  IF outcome.kind = "ok" THEN
    [response |-> outcome.response,
     context_used |-> Len(contextSources) > 0,
     context_sources |-> contextSources]
  ELSE
    [response |-> "I apologize, but I encountered an error while processing your request: "
                    \o ErrorText(outcome),
     context_used |-> Len(contextSources) > 0,
     context_sources |-> contextSources]

\* generateAIResponse after its fetch: the value the promise resolves with
AIResult(contextSources, outcome) ==
  IF outcome.kind = "ok" THEN
    [response |-> outcome.response,
     context_used |-> Len(contextSources) > 0,
     context_sources |-> contextSources]
  ELSE
    [response |-> "I apologize, but I encountered an error while processing your request: "
                    \o ErrorText(outcome),
     context_used |-> FALSE,
     context_sources |-> <<>>]

\* what the extraction fetch can yield, and whether a FileReader read succeeds
ExtractOutcomes ==
  {[kind |-> "ok", readOk |-> TRUE], [kind |-> "okEmpty", readOk |-> TRUE],
   [kind |-> "status", readOk |-> TRUE], [kind |-> "status", readOk |-> FALSE],
   [kind |-> "network", readOk |-> TRUE]}

ExtractErrorText(outcome) ==
  IF outcome.kind = "status" THEN "Error: Failed to extract text from file"
  ELSE "TypeError: Failed to fetch"

\* extractTextFromFile: [settled |-> "resolved", value |-> text] or "rejected"
extractTextFromFile(file, outcome) ==
  IF outcome.kind = "ok" THEN [settled |-> "resolved", value |-> file.text]
  ELSE IF outcome.kind = "okEmpty" THEN [settled |-> "resolved", value |-> ""]
  ELSE IF startsWith(file.type, "text/") \/ endsWith(toLowerCase(file.name), ".txt") THEN
    IF outcome.readOk THEN [settled |-> "resolved", value |-> file.text]
    ELSE [settled |-> "rejected", value |-> "Error: Failed to read text file"]
  ELSE [settled |-> "resolved",
        value |-> "[Error extracting text from " \o file.name \o "]: "
                    \o ExtractErrorText(outcome)]

\* the files a user picks
Files ==
  {[name |-> "Notes.TXT", type |-> "", text |-> "hello"],
   [name |-> "report.pdf", type |-> "application/pdf", text |-> "%PDF"]}

\* the texts a user submits
Inputs == {"summarize", " "}

RECURSIVE trimStart(_)
trimStart(s) ==
  IF Len(s) > 0 /\ SubSeq(s, 1, 1) = " " THEN trimStart(SubSeq(s, 2, Len(s))) ELSE s
RECURSIVE trimEnd(_)
trimEnd(s) ==
  IF Len(s) > 0 /\ SubSeq(s, Len(s), Len(s)) = " "
  THEN trimEnd(SubSeq(s, 1, Len(s) - 1)) ELSE s
trim(s) == trimEnd(trimStart(s))

\* ---------------------------------------------------------- AuthProvider
\* variant: the guest identity carries id 0
GuestUser_ZeroId == [id |-> 0, email |-> "guest@example.com", full_name |-> "Guest User"]

GuestUser == [id |-> -1, email |-> "guest@example.com", full_name |-> "Guest User"]
AccountUser == [id |-> 1, email |-> "user@example.com", full_name |-> "User"]
NoUser == <<>>

AuthInit == [user |-> NoUser, isGuestMode |-> FALSE]

\* the mount effect of AuthProvider
AuthEffect(ls) ==
  IF getItem(ls, "guestMode") = <<"true">>
  THEN [user |-> <<GuestUser>>, isGuestMode |-> TRUE]
  ELSE IF getItem(ls, "token") # Absent /\ getItem(ls, "user") # Absent
  THEN [user |-> <<getItem(ls, "user")[1].json>>, isGuestMode |-> FALSE]
  ELSE AuthInit

\* ---------------------------------------------------------- DashboardPage
DashInit ==
  [mounted |-> FALSE, messages |-> <<>>, documents |-> <<>>,
   selectedDocuments |-> <<>>, contextMode |-> "none",
   isLoading |-> FALSE, isUploading |-> FALSE]

ConvertMessage(msg) ==
  [id |-> parseInt(msg.id), user_id |-> -1, message |-> msg.message,
   response |-> msg.response,
   context_documents |-> Field(msg, "context_documents"),
   created_at |-> msg.created_at]

ConvertDocument(doc) ==
  [id |-> parseInt(doc.id), filename |-> doc.filename, file_type |-> doc.file_type,
   created_at |-> doc.created_at, content_length |-> Len(doc.content)]

loadChatHistory(ls) ==
  LET guestHistory == getChatHistory(ls)
  IN [i \in 1..Len(guestHistory) |-> ConvertMessage(guestHistory[i])]
loadDocuments(ls) ==
  LET guestDocs == getDocuments(ls)
  IN [i \in 1..Len(guestDocs) |-> ConvertDocument(guestDocs[i])]

\* PrivateRoute renders DashboardPage when a user is set; its mount effects
\* load both lists (from storage in guest mode, from the remote API otherwise)
DashMount(a, ls) ==
  IF a.user = NoUser THEN DashInit
  ELSE IF a.isGuestMode
  THEN [DashInit EXCEPT !.mounted = TRUE,
                        !.messages = loadChatHistory(ls),
                        !.documents = loadDocuments(ls)]
  ELSE [DashInit EXCEPT !.mounted = TRUE]

\* requests of a tab whose component instance is gone keep running
Orphan(reqs, t) ==
  {IF r.tab = t THEN [r EXCEPT !.live = FALSE] ELSE r : r \in reqs}
Discard(reqs, t) == {r \in reqs : r.tab # t}

\* ------------------------------------------------------ page lifecycle
\* mutant: the listener clears without looking at the guest-mode flag
BeforeUnloadListener_Unconditional(ls) ==
  IF ~Readable THEN [ls |-> ls, raised |-> TRUE]
  ELSE [ls |-> clearAllData(ls), raised |-> FALSE]

\* window 'beforeunload' listener: the storage it leaves and whether an
\* exception escaped it (there is no try/catch around its storage calls)
BeforeUnloadListener(ls) ==
  IF ~Readable THEN [ls |-> ls, raised |-> TRUE]
  ELSE IF getItem(ls, "guestMode") = <<"true">>
  THEN [ls |-> clearAllData(ls), raised |-> FALSE]
  ELSE [ls |-> ls, raised |-> FALSE]

\* mutant: thirty minutes sharp already count as expired
Expired_AtLeast(lastActive, t) ==
  parseInt(lastActive) # NaN /\ t - parseInt(lastActive) >= ExpiryMs

Expired(lastActive, t) ==
  parseInt(lastActive) # NaN /\ t - parseInt(lastActive) > ExpiryMs

\* mutant: the listener clears the guest data but does not reload the page
VisibilityListener_NoReload(ls, visibilityState, t) ==
  LET isGuestMode == getItem(ls, "guestMode") = <<"true">>
      lastActive == getItem(ls, "guestModeLastActive")
  IN IF ~Readable THEN [ls |-> ls, reload |-> FALSE, raised |-> TRUE]
     ELSE IF visibilityState = "hidden" THEN
       IF ~isGuestMode THEN [ls |-> ls, reload |-> FALSE, raised |-> FALSE]
       ELSE IF ~Writable THEN [ls |-> ls, reload |-> FALSE, raised |-> TRUE]
       ELSE [ls |-> setItem(ls, "guestModeLastActive", toString(t)),
             reload |-> FALSE, raised |-> FALSE]
     ELSE IF isGuestMode /\ lastActive # Absent /\ Len(lastActive[1]) > 0
             /\ Expired(lastActive[1], t)
     THEN [ls |-> clearAllData(ls), reload |-> FALSE, raised |-> FALSE]
     ELSE [ls |-> ls, reload |-> FALSE, raised |-> FALSE]

\* document 'visibilitychange' listener: the storage it leaves, whether it
\* called window.location.reload() and whether an exception escaped it
\* variant: a timestamp already stored is kept when the page is hidden
VisibilityListener_KeepsFirst(ls, visibilityState, t) ==
  LET isGuestMode == getItem(ls, "guestMode") = <<"true">>
      lastActive == getItem(ls, "guestModeLastActive")
  IN IF ~Readable THEN [ls |-> ls, reload |-> FALSE, raised |-> TRUE]
     ELSE IF visibilityState = "hidden" THEN
       IF ~isGuestMode \/ lastActive # Absent
       THEN [ls |-> ls, reload |-> FALSE, raised |-> FALSE]
       ELSE IF ~Writable THEN [ls |-> ls, reload |-> FALSE, raised |-> TRUE]
       ELSE [ls |-> setItem(ls, "guestModeLastActive", toString(t)),
             reload |-> FALSE, raised |-> FALSE]
     ELSE IF isGuestMode /\ lastActive # Absent /\ Len(lastActive[1]) > 0
             /\ Expired(lastActive[1], t)
     THEN [ls |-> clearAllData(ls), reload |-> TRUE, raised |-> FALSE]
     ELSE [ls |-> ls, reload |-> FALSE, raised |-> FALSE]

\* variant: the timestamp is stored whenever the page is hidden
VisibilityListener_StampsAlways(ls, visibilityState, t) ==
  LET isGuestMode == getItem(ls, "guestMode") = <<"true">>
      lastActive == getItem(ls, "guestModeLastActive")
  IN IF ~Readable THEN [ls |-> ls, reload |-> FALSE, raised |-> TRUE]
     ELSE IF visibilityState = "hidden" THEN
       IF ~Writable THEN [ls |-> ls, reload |-> FALSE, raised |-> TRUE]
       ELSE [ls |-> setItem(ls, "guestModeLastActive", toString(t)),
             reload |-> FALSE, raised |-> FALSE]
     ELSE IF isGuestMode /\ lastActive # Absent /\ Len(lastActive[1]) > 0
             /\ Expired(lastActive[1], t)
     THEN [ls |-> clearAllData(ls), reload |-> TRUE, raised |-> FALSE]
     ELSE [ls |-> ls, reload |-> FALSE, raised |-> FALSE]

VisibilityListener(ls, visibilityState, t) ==
  LET isGuestMode == getItem(ls, "guestMode") = <<"true">>
      lastActive == getItem(ls, "guestModeLastActive")
  IN IF ~Readable THEN [ls |-> ls, reload |-> FALSE, raised |-> TRUE]
     ELSE IF visibilityState = "hidden" THEN
       IF ~isGuestMode THEN [ls |-> ls, reload |-> FALSE, raised |-> FALSE]
       ELSE IF ~Writable THEN [ls |-> ls, reload |-> FALSE, raised |-> TRUE]
       ELSE [ls |-> setItem(ls, "guestModeLastActive", toString(t)),
             reload |-> FALSE, raised |-> FALSE]
     ELSE IF isGuestMode /\ lastActive # Absent /\ Len(lastActive[1]) > 0
             /\ Expired(lastActive[1], t)
     THEN [ls |-> clearAllData(ls), reload |-> TRUE, raised |-> FALSE]
     ELSE [ls |-> ls, reload |-> FALSE, raised |-> FALSE]


\* no tab open, the clock at 1, storage working
NoTabs ==
  /\ now = 1
  /\ page = [t \in Tabs |-> "closed"]
  /\ visibility = [t \in Tabs |-> "visible"]
  /\ auth = [t \in Tabs |-> AuthInit]
  /\ dash = [t \in Tabs |-> DashInit]
  /\ inflight = {}
  /\ last = [op |-> "none", tab |-> "A", ret |-> FALSE]
  /\ storage = "ok"

Fresh ==
  /\ NoTabs
  /\ localStorage = [k \in Keys |-> Absent]

\* a fresh browser profile: nothing stored, no tab open
Init ==
  /\ Fresh
  /\ budget = MaxOps

Tick(steps) ==
  /\ budget > 0
  /\ \E d \in steps : now' = now + d
  /\ budget' = budget - 1
  /\ last' = [op |-> "Tick", tab |-> "A", ret |-> FALSE]
  /\ UNCHANGED <<storage, localStorage, page, visibility, auth, dash, inflight>>

\* the application starts in tab t: AuthProvider mounts, then the route
\* (with storage disabled the mount effect raises at its first getItem and
\* React unmounts the tree: a blank page whose window listeners still run)
StartPage(t, ls) ==
  /\ visibility' = [visibility EXCEPT ![t] = "visible"]
  /\ IF Readable
     THEN /\ page' = [page EXCEPT ![t] = "open"]
          /\ auth' = [auth EXCEPT ![t] = AuthEffect(ls)]
          /\ dash' = [dash EXCEPT ![t] = DashMount(AuthEffect(ls), ls)]
     ELSE /\ page' = [page EXCEPT ![t] = "crashed"]
          /\ auth' = [auth EXCEPT ![t] = AuthInit]
          /\ dash' = [dash EXCEPT ![t] = DashInit]

\* the module of guestService.js is loaded: its listeners are registered
Loaded(t) == page[t] \in {"open", "crashed"}

OpenTab(t) ==
  /\ page[t] = "closed"
  /\ StartPage(t, localStorage)
  /\ last' = [op |-> "OpenTab", tab |-> t, ret |-> FALSE]
  /\ UNCHANGED <<storage, now, localStorage, inflight, budget>>

\* the user closes the tab: beforeunload, then the page is gone
CloseTab(t) ==
  /\ Loaded(t)
  /\ localStorage' = BeforeUnloadListener(localStorage).ls
  /\ page' = [page EXCEPT ![t] = "closed"]
  /\ visibility' = [visibility EXCEPT ![t] = "visible"]
  /\ auth' = [auth EXCEPT ![t] = AuthInit]
  /\ dash' = [dash EXCEPT ![t] = DashInit]
  /\ inflight' = Discard(inflight, t)
  /\ last' = [op |-> "Unload", tab |-> t,
              ret |-> [before |-> localStorage,
                       raised |-> BeforeUnloadListener(localStorage).raised]]
  /\ UNCHANGED <<storage, now, budget>>

\* the user reloads the page: beforeunload, then the application starts anew
Reload(t) ==
  /\ Loaded(t)
  /\ localStorage' = BeforeUnloadListener(localStorage).ls
  /\ StartPage(t, BeforeUnloadListener(localStorage).ls)
  /\ inflight' = Discard(inflight, t)
  /\ last' = [op |-> "Reload", tab |-> t,
              ret |-> [before |-> localStorage,
                       raised |-> BeforeUnloadListener(localStorage).raised]]
  /\ UNCHANGED <<storage, now, budget>>

Hide(t) ==
  /\ Loaded(t)
  /\ visibility[t] = "visible"
  /\ visibility' = [visibility EXCEPT ![t] = "hidden"]
  /\ localStorage' = VisibilityListener(localStorage, "hidden", now).ls
  /\ last' = [op |-> "Hide", tab |-> t,
              ret |-> [before |-> localStorage,
                       raised |-> VisibilityListener(localStorage, "hidden", now).raised]]
  /\ UNCHANGED <<storage, now, page, auth, dash, inflight, budget>>

\* the page becomes visible; a reload the listener asks for (beforeunload,
\* then the application starting anew) is taken in the same step
Resume(t) ==
  /\ Loaded(t)
  /\ visibility[t] = "hidden"
  /\ LET r == VisibilityListener(localStorage, "visible", now)
     IN /\ last' = [op |-> "Resume", tab |-> t,
                    ret |-> [before |-> localStorage, reload |-> r.reload,
                             raised |-> r.raised]]
        /\ IF r.reload
           THEN /\ localStorage' = BeforeUnloadListener(r.ls).ls
                /\ StartPage(t, BeforeUnloadListener(r.ls).ls)
                /\ inflight' = Discard(inflight, t)
           ELSE /\ localStorage' = r.ls
                /\ visibility' = [visibility EXCEPT ![t] = "visible"]
                /\ UNCHANGED <<page, auth, dash, inflight>>
  /\ UNCHANGED <<storage, now, budget>>

\* ------------------------------------------------------------ AuthContext
\* (setItem raising leaves the function before any state is set)
enterGuestMode(t) ==
  /\ page[t] = "open"
  /\ auth[t].user = NoUser
  /\ IF Writable
     THEN /\ localStorage' = setItem(localStorage, "guestMode", "true")
          /\ auth' = [auth EXCEPT ![t] = [user |-> <<GuestUser>>, isGuestMode |-> TRUE]]
          /\ dash' = [dash EXCEPT ![t] =
                DashMount([user |-> <<GuestUser>>, isGuestMode |-> TRUE], localStorage')]
     ELSE UNCHANGED <<localStorage, auth, dash>>
  /\ last' = [op |-> "enterGuestMode", tab |-> t,
              ret |-> [before |-> localStorage, raised |-> ~Writable,
                       requests |-> inflight]]
  /\ UNCHANGED <<storage, now, page, visibility, inflight, budget>>

\* login and register after authAPI answered with a token and a user
SignIn(t, op) ==
  /\ page[t] = "open"
  /\ auth[t].user = NoUser
  /\ budget > 0
  /\ budget' = budget - 1
  /\ IF Writable
     THEN /\ localStorage' = setItem(setItem(localStorage, "token", "access_token"),
                                     "user", [json |-> AccountUser])
          /\ auth' = [auth EXCEPT ![t].user = <<AccountUser>>]
          /\ dash' = [dash EXCEPT ![t] = DashMount(auth'[t], localStorage')]
     ELSE UNCHANGED <<localStorage, auth, dash>>
  /\ last' = [op |-> op, tab |-> t,
              ret |-> [before |-> localStorage, raised |-> ~Writable]]
  /\ UNCHANGED <<storage, now, page, visibility, inflight>>

login(t) == SignIn(t, "login")
register(t) == SignIn(t, "register")

logout(t) ==
  /\ page[t] = "open"
  /\ dash[t].mounted
  /\ IF Readable
     THEN /\ localStorage' =
               removeItem(removeItem(removeItem(removeItem(removeItem(localStorage,
                 "token"), "user"), "guestMode"), "guestDocuments"), "guestChatHistory")
          /\ auth' = [auth EXCEPT ![t] = AuthInit]
          /\ dash' = [dash EXCEPT ![t] = DashInit]
          /\ inflight' = Orphan(inflight, t)
     ELSE UNCHANGED <<localStorage, auth, dash, inflight>>
  /\ last' = [op |-> "logout", tab |-> t,
              ret |-> [before |-> localStorage, raised |-> ~Readable]]
  /\ UNCHANGED <<storage, now, page, visibility, budget>>

\* ---------------------------------------------------- DashboardPage handlers
Guest(t) == page[t] = "open" /\ dash[t].mounted /\ auth[t].isGuestMode

\* handleSendMessage up to the await inside generateAIResponse
handleSendMessage(t, inputMessage) ==
  /\ Guest(t)
  /\ IF trim(inputMessage) = "" \/ dash[t].isLoading
     THEN /\ last' = [op |-> "handleSendMessage", tab |-> t, ret |-> FALSE]
          /\ UNCHANGED <<dash, inflight, budget>>
     ELSE /\ budget > 0
          /\ budget' = budget - 1
          /\ LET newUserMessage ==
                   [id |-> now, user_id |-> auth[t].user[1].id,
                    message |-> inputMessage, response |-> "",
                    created_at |-> toISOString(now)]
                 useSelectedDocs ==
                   IF dash[t].contextMode = "selected"
                   THEN <<[i \in 1..Len(dash[t].selectedDocuments) |->
                             toString(dash[t].selectedDocuments[i])]>>
                   ELSE Undefined
                 useAllDocs == dash[t].contextMode = "all"
                 built == BuildContext(localStorage, useSelectedDocs, useAllDocs)
             IN /\ dash' = [dash EXCEPT
                              ![t].messages = Append(@, newUserMessage),
                              ![t].isLoading = TRUE]
                /\ inflight' = inflight \cup
                     {[kind |-> "chat", tab |-> t, live |-> TRUE,
                       message |-> inputMessage,
                       context |-> built.context,
                       contextSources |-> built.contextSources,
                       file |-> <<>>,
                       pending |-> <<newUserMessage>>]}
          /\ last' = [op |-> "handleSendMessage", tab |-> t, ret |-> TRUE]
  /\ UNCHANGED <<storage, now, localStorage, page, visibility, auth>>

\* the rest of handleSendMessage, once the chat fetch settled; when
\* saveChatMessage raises, the catch shows the pending message with an apology
\* variant: the sources are serialized whether or not there are any
GuestMessageData_AlwaysSerializes(userMessage, response) ==
  [message |-> userMessage,
   response |-> response.response,
   context_documents |-> <<JSONstringify(response.context_sources)>>]

\* the record handed to saveChatMessage for a guest's answered message
GuestMessageData(userMessage, response) ==
  [message |-> userMessage,
   response |-> response.response,
   context_documents |->
     IF Len(response.context_sources) > 0
     THEN <<JSONstringify(response.context_sources)>>
     ELSE Undefined]

ChatSettled(r, outcome) ==
  /\ r \in inflight
  /\ r.kind = "chat"
  /\ LET response == AIResult(r.contextSources, outcome)
         saved == saveChatMessage(localStorage,
                                  GuestMessageData(r.message, response), now)
         guestMessage == saved.ret
         assistantMessage ==
           [id |-> parseInt(guestMessage.id), user_id |-> -1,
            message |-> r.message, response |-> response.response,
            context_documents |-> guestMessage.context_documents,
            created_at |-> guestMessage.created_at]
         failedMessage ==
           [r.pending[1] EXCEPT
              !.response = "Sorry, I encountered an error. Please try again."]
     IN /\ localStorage' = saved.ls
        /\ dash' = IF r.live
                   THEN [dash EXCEPT
                           ![r.tab].messages =
                              Append(SubSeq(@, 1, Len(@) - 1),
                                     IF saved.raised THEN failedMessage
                                     ELSE assistantMessage),
                           ![r.tab].isLoading = FALSE]
                   ELSE dash
        /\ last' = [op |-> "ChatSettled", tab |-> r.tab,
                    ret |-> [request |-> r, outcome |-> outcome, result |-> response,
                             created |-> guestMessage, raised |-> saved.raised,
                             before |-> localStorage,
                             shown |-> dash[r.tab].messages]]
  /\ inflight' = inflight \ {r}
  /\ UNCHANGED <<storage, now, page, visibility, auth, budget>>

\* handleFileUpload up to the await of extractTextFromFile
handleFileUpload(t, file) ==
  /\ Guest(t)
  /\ ~dash[t].isUploading
  /\ budget > 0
  /\ budget' = budget - 1
  /\ dash' = [dash EXCEPT ![t].isUploading = TRUE]
  /\ inflight' = inflight \cup
       {[kind |-> "extract", tab |-> t, live |-> TRUE, message |-> "",
         context |-> "", contextSources |-> <<>>, file |-> <<file>>,
         pending |-> <<>>]}
  /\ last' = [op |-> "handleFileUpload", tab |-> t, ret |-> FALSE]
  /\ UNCHANGED <<storage, now, localStorage, page, visibility, auth>>

\* the rest of handleFileUpload, once extractTextFromFile settled: a
\* rejection, or saveDocument raising, goes to the catch and the finally
ExtractSettled(r, outcome) ==
  /\ r \in inflight
  /\ r.kind = "extract"
  /\ LET file == r.file[1]
         extracted == extractTextFromFile(file, outcome)
         saved == saveDocument(localStorage,
                    [filename |-> file.name, content |-> extracted.value,
                     file_type |-> IF file.type # "" THEN file.type ELSE "unknown"],
                    now)
         systemMessage ==
           [id |-> now, user_id |-> -1,
            message |-> "Uploaded document: " \o file.name,
            response |-> "Successfully uploaded \"" \o file.name
                           \o "\". You can now ask questions about this document.",
            created_at |-> toISOString(now)]
         result == [file |-> file, outcome |-> outcome,
                    settled |-> extracted.settled, value |-> extracted.value,
                    created |-> saved.ret, raised |-> saved.raised,
                    before |-> localStorage]
     IN IF extracted.settled = "rejected" \/ saved.raised
        THEN /\ dash' = IF r.live THEN [dash EXCEPT ![r.tab].isUploading = FALSE]
                        ELSE dash
             /\ last' = [op |-> "ExtractSettled", tab |-> r.tab, ret |-> result]
             /\ UNCHANGED localStorage
        ELSE /\ localStorage' = saved.ls
             /\ dash' = IF r.live
                        THEN [dash EXCEPT
                                ![r.tab].documents = loadDocuments(saved.ls),
                                ![r.tab].messages = Append(@, systemMessage),
                                ![r.tab].isUploading = FALSE]
                        ELSE dash
             /\ last' = [op |-> "ExtractSettled", tab |-> r.tab, ret |-> result]
  /\ inflight' = inflight \ {r}
  /\ UNCHANGED <<storage, now, page, visibility, auth, budget>>

\* the checkbox of a listed document (shown in mode 'selected')
handleDocumentSelect(t, documentId) ==
  /\ Guest(t)
  /\ dash[t].contextMode = "selected"
  /\ \E i \in 1..Len(dash[t].documents) : dash[t].documents[i].id = documentId
  /\ LET prev == dash[t].selectedDocuments
         Other(id) == id # documentId
     IN dash' = [dash EXCEPT ![t].selectedDocuments =
                   IF includes(prev, documentId) THEN SelectSeq(prev, Other)
                   ELSE Append(prev, documentId)]
  /\ last' = [op |-> "handleDocumentSelect", tab |-> t, ret |-> FALSE]
  /\ UNCHANGED <<storage, now, localStorage, page, visibility, auth, inflight, budget>>

handleContextModeChange(t, mode) ==
  /\ Guest(t)
  /\ mode # dash[t].contextMode
  /\ dash' = [dash EXCEPT
                ![t].contextMode = mode,
                ![t].selectedDocuments =
                   IF mode = "none" \/ mode = "all" THEN <<>> ELSE @]
  /\ last' = [op |-> "handleContextModeChange", tab |-> t, ret |-> FALSE]
  /\ UNCHANGED <<storage, now, localStorage, page, visibility, auth, inflight, budget>>

\* handleDeleteDocument on a listed document, then confirmDelete in the modal
confirmDelete(t, documentToDelete) ==
  /\ Guest(t)
  /\ \E i \in 1..Len(dash[t].documents) : dash[t].documents[i].id = documentToDelete
  /\ budget > 0
  /\ budget' = budget - 1
  /\ LET d == deleteDocument(localStorage, toString(documentToDelete))
         KeepDoc(doc) == doc.id # documentToDelete
         KeepId(id) == id # documentToDelete
     IN /\ localStorage' = d.ls
        /\ dash' = IF d.ret
                   THEN [dash EXCEPT
                           ![t].documents = SelectSeq(@, KeepDoc),
                           ![t].selectedDocuments = SelectSeq(@, KeepId)]
                   ELSE dash
        /\ last' = [op |-> "confirmDelete", tab |-> t,
                    ret |-> [success |-> d.ret, id |-> toString(documentToDelete),
                             before |-> localStorage,
                             shown |-> dash[t].documents,
                             selected |-> dash[t].selectedDocuments]]
  /\ UNCHANGED <<storage, now, page, visibility, auth, inflight>>

DisplayedIds(t) == {dash[t].documents[i].id : i \in 1..Len(dash[t].documents)}
ContextModes == {"none", "selected", "all"}

\* ------------------------------------------- one guest tab, the dashboard
\* a text file whose extraction fails: read locally, or the read fails too
DashFiles == {f \in Files : f.name = "Notes.TXT"}
DashExtractOutcomes == {o \in ExtractOutcomes : o.kind = "status"}

Next ==
  \/ Tick({1})
  \/ OpenTab("A")
  \/ Reload("A")
  \/ enterGuestMode("A")
  \/ logout("A")
  \/ \E m \in Inputs : handleSendMessage("A", m)
  \/ \E r \in inflight, o \in ChatOutcomes : ChatSettled(r, o)
  \/ \E f \in DashFiles : handleFileUpload("A", f)
  \/ \E r \in inflight, o \in DashExtractOutcomes : ExtractSettled(r, o)
  \/ \E id \in DisplayedIds("A") : handleDocumentSelect("A", id)
  \/ \E m \in ContextModes : handleContextModeChange("A", m)
  \/ \E id \in DisplayedIds("A") : confirmDelete("A", id)

Spec == Init /\ [][Next]_vars

\* ------------------------------------ one guest tab, documents and chat
\* uploads that succeed, and sends with every answer of the chat backend
ChatFiles == {f \in Files : f.name = "Notes.TXT"}

InitChat ==
  /\ Fresh
  /\ budget = MaxOps

NextChat ==
  \/ Tick({1})
  \/ OpenTab("A")
  \/ enterGuestMode("A")
  \/ logout("A")
  \/ handleSendMessage("A", "summarize")
  \/ \E r \in inflight, o \in ChatOutcomes : ChatSettled(r, o)
  \/ \E f \in ChatFiles : handleFileUpload("A", f)
  \/ \E r \in inflight : ExtractSettled(r, [kind |-> "ok", readOk |-> TRUE])
  \/ \E id \in DisplayedIds("A") : handleDocumentSelect("A", id)
  \/ \E m \in ContextModes : handleContextModeChange("A", m)
  \/ \E id \in DisplayedIds("A") : confirmDelete("A", id)

SpecChat == InitChat /\ [][NextChat]_vars

\* ------------------------------------------- one tab, the page lifecycle
\* a text file read locally and a chat answered: one document, one message
LifeFiles == {f \in Files : f.name = "Notes.TXT"}
LifeExtractOutcomes == {o \in ExtractOutcomes : o.kind = "status" /\ o.readOk}
LifeChatOutcomes == {o \in ChatOutcomes : o.kind = "ok" /\ o.response # ""}

InitLife ==
  /\ Fresh
  /\ budget = MaxOps

NextLife ==
  \/ Tick(TickSteps)
  \/ OpenTab("A")
  \/ CloseTab("A")
  \/ Reload("A")
  \/ Hide("A")
  \/ Resume("A")
  \/ enterGuestMode("A")
  \/ login("A")
  \/ register("A")
  \/ logout("A")
  \/ handleSendMessage("A", "summarize")
  \/ \E r \in inflight, o \in LifeChatOutcomes : ChatSettled(r, o)
  \/ \E f \in LifeFiles : handleFileUpload("A", f)
  \/ \E r \in inflight, o \in LifeExtractOutcomes : ExtractSettled(r, o)

SpecLife == InitLife /\ [][NextLife]_vars

\* ------------------------------------------ two tabs, guest and account
InitTabs ==
  /\ Fresh
  /\ budget = MaxOps

NextTabs ==
  \/ \E t \in Tabs : OpenTab(t)
  \/ \E t \in Tabs : CloseTab(t)
  \/ \E t \in Tabs : Reload(t)
  \/ \E t \in Tabs : enterGuestMode(t)
  \/ \E t \in Tabs : login(t)
  \/ \E t \in Tabs : register(t)
  \/ \E t \in Tabs : logout(t)
  \/ \E t \in Tabs, f \in LifeFiles : handleFileUpload(t, f)
  \/ \E r \in inflight, o \in LifeExtractOutcomes : ExtractSettled(r, o)
  \/ \E t \in Tabs : handleSendMessage(t, "summarize")
  \/ \E r \in inflight, o \in LifeChatOutcomes : ChatSettled(r, o)

SpecTabs == InitTabs /\ [][NextTabs]_vars

\* ---------------------------------------- GuestService called directly
\* the exported guestService object, its methods called in any order with
\* any arguments
DocInputs ==
  {[filename |-> "a.txt", file_type |-> "text/plain", content |-> "hello"],
   [filename |-> "b.pdf", file_type |-> "application/pdf", content |-> ""],
   [filename |-> "a.txt", file_type |-> "unknown", content |-> "x\n\n--- Document: b.pdf ---\n"]}

MsgInputs ==
  {[message |-> "summarize", response |-> "Sure.", context_documents |-> Undefined],
   [message |-> "why?", response |-> "Because.",
    context_documents |-> <<JSONstringify(<<[id |-> "1", filename |-> "a.txt"]>>)>>]}

IdInputs == {toString(n) : n \in 0..3}

\* undefined, the empty array, and the arrays of one or two distinct ids
Selections ==
  {Undefined, << <<>> >>}
    \cup {<< <<a>> >> : a \in IdInputs}
    \cup {<< <<a, b>> >> : a, b \in IdInputs}

\* the service is called with the guest-mode flag set (by a page in guest
\* mode) or not
InitService ==
  /\ NoTabs
  /\ \E flag \in {Absent, <<"true">>} :
       localStorage = [k \in Keys |-> IF k = "guestMode" THEN flag ELSE Absent]
  /\ budget = MaxCalls

ServiceFrame == UNCHANGED <<storage, page, visibility, auth, dash>>

CallSaveDocument(documentData) ==
  /\ budget > 0
  /\ budget' = budget - 1
  /\ LET r == saveDocument(localStorage, documentData, now)
     IN /\ localStorage' = r.ls
        /\ last' = [op |-> "saveDocument", tab |-> "A",
                    ret |-> [created |-> r.ret, raised |-> r.raised,
                             before |-> localStorage]]
  /\ UNCHANGED <<now, inflight>>
  /\ ServiceFrame

CallDeleteDocument(documentId) ==
  /\ budget > 0
  /\ budget' = budget - 1
  /\ LET r == deleteDocument(localStorage, documentId)
     IN /\ localStorage' = r.ls
        /\ last' = [op |-> "deleteDocument", tab |-> "A",
                    ret |-> [success |-> r.ret, id |-> documentId,
                             before |-> localStorage]]
  /\ UNCHANGED <<now, inflight>>
  /\ ServiceFrame

CallSaveChatMessage(messageData) ==
  /\ budget > 0
  /\ budget' = budget - 1
  /\ LET r == saveChatMessage(localStorage, messageData, now)
     IN /\ localStorage' = r.ls
        /\ last' = [op |-> "saveChatMessage", tab |-> "A",
                    ret |-> [created |-> r.ret, raised |-> r.raised,
                             before |-> localStorage]]
  /\ UNCHANGED <<now, inflight>>
  /\ ServiceFrame

CallClearAllData ==
  /\ localStorage' = clearAllData(localStorage)
  /\ last' = [op |-> "clearAllData", tab |-> "A",
              ret |-> [raised |-> ~Readable, before |-> localStorage]]
  /\ UNCHANGED <<now, inflight, budget>>
  /\ ServiceFrame

\* generateAIResponse up to its fetch
CallGenerateAIResponse(message, selectedDocuments, useAllDocuments) ==
  /\ inflight = {}
  /\ LET built == BuildContext(localStorage, selectedDocuments, useAllDocuments)
     IN /\ inflight' =
             {[kind |-> "chat", tab |-> "A", live |-> FALSE, message |-> message,
               context |-> built.context, contextSources |-> built.contextSources,
               file |-> <<>>, pending |-> <<>>]}
        /\ last' = [op |-> "generateAIResponse", tab |-> "A",
                    ret |-> [selectedDocuments |-> selectedDocuments,
                             useAllDocuments |-> useAllDocuments]]
  /\ UNCHANGED <<now, localStorage, budget>>
  /\ ServiceFrame

\* generateAIResponse after its fetch: the promise resolves
GenerateSettled(r, outcome) ==
  /\ r \in inflight
  /\ r.kind = "chat"
  /\ inflight' = inflight \ {r}
  /\ last' = [op |-> "GenerateSettled", tab |-> "A",
              ret |-> AIResult(r.contextSources, outcome)]
  /\ UNCHANGED <<now, localStorage, budget>>
  /\ ServiceFrame

NextService ==
  \/ Tick({1})
  \/ \E d \in DocInputs : CallSaveDocument(d)
  \/ \E id \in IdInputs : CallDeleteDocument(id)
  \/ \E m \in MsgInputs : CallSaveChatMessage(m)
  \/ CallClearAllData
  \/ \E sel \in Selections, all \in BOOLEAN : CallGenerateAIResponse("summarize", sel, all)
  \/ \E r \in inflight, o \in ChatOutcomes : GenerateSettled(r, o)

SpecService == InitService /\ [][NextService]_vars

\* ------------------------------- one guest tab, storage failing or corrupt
\* the browser's storage stops or resumes working (quota reached, storage
\* switched off)
SetStorage(mode) ==
  /\ mode # storage
  /\ budget > 0
  /\ budget' = budget - 1
  /\ storage' = mode
  /\ last' = [op |-> "SetStorage", tab |-> "A", ret |-> FALSE]
  /\ UNCHANGED <<now, localStorage, page, visibility, auth, dash, inflight>>

\* something else on the origin overwrites a collection with text that is
\* not JSON
Corrupt(k) ==
  /\ Writable
  /\ getItem(localStorage, k) # <<Unparseable>>
  /\ budget > 0
  /\ budget' = budget - 1
  /\ localStorage' = setItem(localStorage, k, Unparseable)
  /\ last' = [op |-> "Corrupt", tab |-> "A", ret |-> FALSE]
  /\ UNCHANGED <<storage, now, page, visibility, auth, dash, inflight>>

CallGetDocuments ==
  /\ last' = [op |-> "getDocuments", tab |-> "A",
              ret |-> [value |-> getDocuments(localStorage), key |-> documentsKey,
                       before |-> localStorage]]
  /\ UNCHANGED <<now, localStorage, inflight, budget>>
  /\ ServiceFrame

CallGetChatHistory ==
  /\ last' = [op |-> "getChatHistory", tab |-> "A",
              ret |-> [value |-> getChatHistory(localStorage), key |-> chatHistoryKey,
                       before |-> localStorage]]
  /\ UNCHANGED <<now, localStorage, inflight, budget>>
  /\ ServiceFrame

InitFaults ==
  /\ Fresh
  /\ budget = MaxOps

NextFaults ==
  \/ Tick({1})
  \/ \E m \in StorageModes : SetStorage(m)
  \/ \E k \in {documentsKey, chatHistoryKey} : Corrupt(k)
  \/ OpenTab("A")
  \/ CloseTab("A")
  \/ Hide("A")
  \/ Resume("A")
  \/ enterGuestMode("A")
  \/ \E f \in LifeFiles : handleFileUpload("A", f)
  \/ \E r \in inflight, o \in LifeExtractOutcomes : ExtractSettled(r, o)
  \/ handleSendMessage("A", "summarize")
  \/ \E r \in inflight, o \in LifeChatOutcomes : ChatSettled(r, o)
  \/ handleContextModeChange("A", "selected")
  \/ \E id \in DisplayedIds("A") : handleDocumentSelect("A", id)
  \/ \E id \in DisplayedIds("A") : confirmDelete("A", id)
  \/ CallDeleteDocument("0")   \* an id no document has
  \/ CallGetDocuments
  \/ CallGetChatHistory

SpecFaults == InitFaults /\ [][NextFaults]_vars

\* ------------------------------------------------ the storage estimate
RECURSIVE Filler(_)
\* a text of n characters
Filler(n) ==
  IF n = 0 THEN ""
  ELSE IF n % 2 = 0 THEN Filler(n \div 2) \o Filler(n \div 2)
  ELSE "x" \o Filler(n - 1)

\* a small document, and two whose size brings the serialized collections
\* of an otherwise empty storage to 1023 and to 1024 characters
InfoDocInputs ==
  {[filename |-> "a.txt", file_type |-> "text/plain", content |-> "hello"],
   [filename |-> "big.txt", file_type |-> "text/plain", content |-> Filler(910)],
   [filename |-> "big.txt", file_type |-> "text/plain", content |-> Filler(911)]}

\* totals of serialized collections too large to build, around the two
\* thresholds and between them
SizeSamples ==
  {0, 4, 1023, 1024, 1025, 1075, 1280, 1048575, 1048576, 1625292, 5242880}

CallGetStorageInfo ==
  /\ last' = [op |-> "getStorageInfo", tab |-> "A",
              ret |-> [value |-> getStorageInfo(localStorage),
                       before |-> localStorage]]
  /\ UNCHANGED <<localStorage, now, inflight, budget>>
  /\ ServiceFrame

\* the formatting step of getStorageInfo for a given total
CallEstimatedSize(totalBytes) ==
  /\ last' = [op |-> "estimatedSize", tab |-> "A",
              ret |-> [totalBytes |-> totalBytes,
                       value |-> estimatedSize(totalBytes)]]
  /\ UNCHANGED <<localStorage, now, inflight, budget>>
  /\ ServiceFrame

InitInfo ==
  /\ Fresh
  /\ budget = MaxCalls

NextInfo ==
  \/ \E d \in InfoDocInputs : CallSaveDocument(d)
  \/ \E m \in MsgInputs : CallSaveChatMessage(m)
  \/ CallDeleteDocument("1")
  \/ CallGetStorageInfo
  \/ \E n \in SizeSamples : CallEstimatedSize(n)

SpecInfo == InitInfo /\ [][NextInfo]_vars

\* ------------------------------------------- identities across two tabs
InitAuth ==
  /\ Fresh
  /\ budget = MaxOps

NextAuth ==
  \/ \E t \in Tabs : OpenTab(t)
  \/ \E t \in Tabs : CloseTab(t)
  \/ \E t \in Tabs : Reload(t)
  \/ \E t \in Tabs : enterGuestMode(t)
  \/ \E t \in Tabs : login(t)
  \/ \E t \in Tabs : logout(t)
  \/ \E t \in Tabs : handleSendMessage(t, "summarize")
  \/ \E r \in inflight : ChatSettled(r, [kind |-> "ok", response |-> "Sure."])

SpecAuth == InitAuth /\ [][NextAuth]_vars

\* --------------------------------------- hidden pages across two tabs
InitStamp ==
  /\ Fresh
  /\ budget = MaxOps

NextStamp ==
  \/ Tick({ExpiryMs, 1})
  \/ \E t \in Tabs : OpenTab(t)
  \/ \E t \in Tabs : Hide(t)
  \/ \E t \in Tabs : Resume(t)
  \/ \E t \in Tabs : enterGuestMode(t)
  \/ \E t \in Tabs : logout(t)

SpecStamp == InitStamp /\ [][NextStamp]_vars

\* ------------------------------------------------- two tabs, one storage
\* Each tab runs its own script; localStorage is shared but nothing orders
\* one tab's getItem and setItem against another tab's. saveDocument is
\* therefore two steps as seen from another tab: the read of the stored
\* array, then the write of that array with the new document added.
RaceInputs ==
  [A |-> [filename |-> "a.txt", file_type |-> "text/plain", content |-> "hello"],
   B |-> [filename |-> "b.pdf", file_type |-> "application/pdf", content |-> ""]]

\* saveDocument in tab t up to and including the read of the stored array
BeginSaveDocument(t, documentData) ==
  /\ budget > 0
  /\ \A r \in inflight : r.tab # t
  /\ budget' = budget - 1
  /\ inflight' = inflight \cup
                   {[kind |-> "save", tab |-> t, live |-> TRUE,
                     documentData |-> documentData, read |-> localStorage]}
  /\ last' = [op |-> "BeginSaveDocument", tab |-> t, ret |-> FALSE]
  /\ UNCHANGED <<localStorage, now>>
  /\ ServiceFrame

\* the rest of that call: the new document is added to the array that was
\* read and the result is written over the slot
FinishSaveDocument(r) ==
  /\ r \in inflight
  /\ r.kind = "save"
  /\ LET saved == saveDocument(r.read, r.documentData, now)
     IN /\ localStorage' = IF saved.raised THEN localStorage
                           ELSE [localStorage EXCEPT
                                   ![documentsKey] = saved.ls[documentsKey]]
        /\ last' = [op |-> "FinishSaveDocument", tab |-> r.tab,
                    ret |-> [created |-> saved.ret, raised |-> saved.raised,
                             read |-> r.read, before |-> localStorage]]
  /\ inflight' = inflight \ {r}
  /\ UNCHANGED <<now, budget>>
  /\ ServiceFrame

InitRace ==
  /\ Fresh
  /\ budget = MaxCalls + 2

NextRace ==
  \/ Tick({1})
  \/ \E t \in Tabs : BeginSaveDocument(t, RaceInputs[t])
  \/ \E r \in inflight : FinishSaveDocument(r)
  \/ \E id \in IdInputs : CallDeleteDocument(id)
  \/ \E m \in MsgInputs : CallSaveChatMessage(m)

SpecRace == InitRace /\ [][NextRace]_vars

\* ------------------------------------------------------------ the claims
GuestFlag(ls) == getItem(ls, "guestMode") = <<"true">>
GuestKeys == {"guestDocuments", "guestChatHistory", "guestMode"}
TornDown(ls) == \A k \in GuestKeys : getItem(ls, k) = Absent
IdsOf(records) == {records[i].id : i \in 1..Len(records)}
\* the collection read back is the one read before with the created record
\* (its undefined properties left out) added at the end
Appended(records, was, created) ==
  /\ Len(records) = Len(was) + 1
  /\ SubSeq(records, 1, Len(was)) = was
  /\ DropUndefined(records[Len(records)]) = DropUndefined(created)
\* milliseconds between the stored last-hidden timestamp and now
ElapsedSince(ls) == now - parseInt(getItem(ls, "guestModeLastActive")[1])
ResumedAsGuest ==
  /\ last.op = "Resume"
  /\ GuestFlag(last.ret.before)
  /\ getItem(last.ret.before, "guestModeLastActive") # Absent

\* C1: every ChatMessage stored in guestChatHistory has a non-empty response,
\* whatever the chat backend answered (any body, a non-success status, a
\* network failure).
C1_StoredResponsesNonEmpty ==
  \A i \in 1..Len(getChatHistory(localStorage)) :
    getChatHistory(localStorage)[i].response # ""

\* C2: when the page becomes visible with guest mode active and a last-hidden
\* timestamp more than 30 minutes old, the listener removes both collections
\* and the guestMode flag and reloads the page, and the application that
\* starts again has no guest identity and shows no guest data.
C2_ResumeAfterExpiry ==
  (ResumedAsGuest /\ ElapsedSince(last.ret.before) > ExpiryMs)
    => /\ TornDown(localStorage)
       /\ last.ret.reload
       /\ page[last.tab] = "open"
       /\ ~auth[last.tab].isGuestMode
       /\ auth[last.tab].user # <<GuestUser>>
       /\ dash[last.tab].documents = <<>>
       /\ dash[last.tab].messages = <<>>

C2_Witness ==
  /\ ResumedAsGuest
  /\ ElapsedSince(last.ret.before) > ExpiryMs
  /\ getItem(last.ret.before, "guestDocuments") # Absent
  /\ last.ret.reload

\* C3: when the page becomes visible with guest mode active and the
\* last-hidden timestamp is at most 30 minutes old (exactly 30 minutes
\* included), the listener leaves storage as it was and asks for no reload.
C3_ResumeWithinExpiry ==
  (ResumedAsGuest /\ ElapsedSince(last.ret.before) <= ExpiryMs)
    => /\ localStorage = last.ret.before
       /\ ~last.ret.reload
       /\ visibility[last.tab] = "visible"
       /\ auth[last.tab].isGuestMode => dash[last.tab].mounted

C3_Witness ==
  /\ ResumedAsGuest
  /\ ElapsedSince(last.ret.before) = ExpiryMs
  /\ getItem(last.ret.before, "guestDocuments") # Absent
  /\ localStorage = last.ret.before

\* C4: an unload with the guestMode flag 'true' removes both collections and
\* the flag (and nothing else); an unload without the flag changes no key.
C4_UnloadTearsDown ==
  last.op \in {"Unload", "Reload"}
    => IF GuestFlag(last.ret.before)
       THEN \A k \in Keys :
              getItem(localStorage, k) =
                IF k \in GuestKeys THEN Absent ELSE getItem(last.ret.before, k)
       ELSE localStorage = last.ret.before

C4_Witness ==
  /\ last.op = "Unload"
  /\ GuestFlag(last.ret.before)
  /\ getItem(last.ret.before, "guestDocuments") # Absent
  /\ getItem(last.ret.before, "guestChatHistory") # Absent
  /\ TornDown(localStorage)

\* C5: every transition out of guest mode - logout, and a successful login
\* or register while the guest flag is set - leaves the guestMode flag,
\* guestDocuments and guestChatHistory absent from storage.
C5_DeactivateTearsDown ==
  (last.op \in {"logout", "login", "register"} /\ GuestFlag(last.ret.before))
    => TornDown(localStorage)

\* C6: the guest-mode flag survives a page reload: after reloading a page
\* with guest mode active the flag is still 'true' and the application
\* starts as the guest identity.
C6_FlagSurvivesReload ==
  (last.op = "Reload" /\ GuestFlag(last.ret.before))
    => /\ GuestFlag(localStorage)
       /\ auth[last.tab].user = <<GuestUser>>
       /\ auth[last.tab].isGuestMode

\* C7: the stored documents are in insertion order with pairwise distinct
\* ids, also when several are saved within one clock tick; likewise the
\* stored chat messages.
C7_InsertionOrderUniqueIds ==
  /\ \A i, j \in 1..Len(getDocuments(localStorage)) :
       i # j => getDocuments(localStorage)[i].id # getDocuments(localStorage)[j].id
  /\ \A i, j \in 1..Len(getChatHistory(localStorage)) :
       i # j => getChatHistory(localStorage)[i].id # getChatHistory(localStorage)[j].id
  /\ last.op = "saveDocument"
       => Appended(getDocuments(localStorage), getDocuments(last.ret.before),
                   last.ret.created)
  /\ last.op = "saveChatMessage"
       => Appended(getChatHistory(localStorage), getChatHistory(last.ret.before),
                   last.ret.created)

\* C8: deleteDocument with an id that matches no stored document returns
\* true and leaves the documents, their order and the chat history unchanged.
C8_DeleteMissingIsNoOp ==
  (last.op = "deleteDocument"
     /\ last.ret.id \notin IdsOf(getDocuments(last.ret.before)))
    => /\ last.ret.success
       /\ getDocuments(localStorage) = getDocuments(last.ret.before)
       /\ getItem(localStorage, chatHistoryKey) = getItem(last.ret.before, chatHistoryKey)

C8_Witness ==
  /\ last.op = "deleteDocument"
  /\ last.ret.id \notin IdsOf(getDocuments(last.ret.before))
  /\ Len(getDocuments(last.ret.before)) >= 2
  /\ getDocuments(localStorage) = getDocuments(last.ret.before)

\* the framing of a context: for each document in turn the marker line with
\* its filename, then its whole content; two newlines between blocks and
\* nothing else
MarkerPrefix == "--- Document: "
MarkerSuffix == " ---\n"
BlockLen(d) ==
  Len(MarkerPrefix) + Len(d.filename) + Len(MarkerSuffix) + Len(d.content)
RECURSIVE BlockStart(_, _)
BlockStart(ds, i) ==
  IF i = 1 THEN 1 ELSE BlockStart(ds, i - 1) + BlockLen(ds[i - 1]) + 2
IsFramed(ctx, ds) ==
  /\ Len(ctx) = IF ds = <<>> THEN 0
                ELSE BlockStart(ds, Len(ds)) + BlockLen(ds[Len(ds)]) - 1
  /\ \A i \in 1..Len(ds) :
       LET a == BlockStart(ds, i)
           b == a + Len(MarkerPrefix)
           c == b + Len(ds[i].filename)
           e == c + Len(MarkerSuffix)
           f == e + Len(ds[i].content)
       IN /\ SubSeq(ctx, a, b - 1) = MarkerPrefix
          /\ SubSeq(ctx, b, c - 1) = ds[i].filename
          /\ SubSeq(ctx, c, e - 1) = MarkerSuffix
          /\ SubSeq(ctx, e, f - 1) = ds[i].content
          /\ i < Len(ds) => SubSeq(ctx, f, f + 1) = "\n\n"
NamesSources(srcs, ds) ==
  /\ Len(srcs) = Len(ds)
  /\ \A i \in 1..Len(ds) :
       srcs[i] = [id |-> ds[i].id, filename |-> ds[i].filename]

\* the documents whose id is in the selection, in stored order
StoredSelection(ds, ids) ==
  LET I == {i \in 1..Len(ds) : \E k \in 1..Len(ids) : ids[k] = ds[i].id}
  IN [k \in 1..Cardinality(I) |->
        ds[CHOOSE i \in I : Cardinality({j \in I : j < i}) = k - 1]]

\* C9: in mode 'all' the context is one block per stored document, in stored
\* order, blocks separated by a blank line, and the sources name the same
\* documents in the same order.
C9_AllModeContext ==
  (last.op = "generateAIResponse" /\ last.ret.useAllDocuments)
    => \A r \in inflight :
         /\ IsFramed(r.context, getDocuments(localStorage))
         /\ NamesSources(r.contextSources, getDocuments(localStorage))

C9_Witness ==
  /\ last.op = "generateAIResponse"
  /\ last.ret.useAllDocuments
  /\ Len(getDocuments(localStorage)) >= 2
  /\ \E r \in inflight : Len(r.contextSources) >= 2

\* C10: in mode 'selected' with a non-empty selection the context and the
\* sources hold exactly the stored documents whose id is selected, in stored
\* order whatever the order of the selection; unmatched ids add nothing.
C10_SelectedModeContext ==
  (last.op = "generateAIResponse" /\ ~last.ret.useAllDocuments
     /\ last.ret.selectedDocuments # Undefined
     /\ Len(last.ret.selectedDocuments[1]) > 0)
    => \A r \in inflight :
         LET chosen == StoredSelection(getDocuments(localStorage),
                                       last.ret.selectedDocuments[1])
         IN /\ IsFramed(r.context, chosen)
            /\ NamesSources(r.contextSources, chosen)

\* the selection names the second stored document before the first
C10_Witness ==
  /\ last.op = "generateAIResponse"
  /\ ~last.ret.useAllDocuments
  /\ last.ret.selectedDocuments # Undefined
  /\ Len(last.ret.selectedDocuments[1]) = 2
  /\ Len(getDocuments(localStorage)) >= 2
  /\ getDocuments(localStorage)[1].id = last.ret.selectedDocuments[1][2]
  /\ getDocuments(localStorage)[2].id = last.ret.selectedDocuments[1][1]
  /\ getDocuments(localStorage)[1].id # getDocuments(localStorage)[2].id
  /\ \E r \in inflight : Len(r.contextSources) = 2

\* the chat requests of the component now mounted in the tab of the last step
PendingSends == {r \in inflight : r.kind = "chat" /\ r.live /\ r.tab = last.tab}
NothingSelected ==
  \/ dash[last.tab].contextMode = "none"
  \/ /\ dash[last.tab].contextMode = "selected"
     /\ dash[last.tab].selectedDocuments = <<>>

\* C11: a message sent in mode 'none', or in mode 'selected' with nothing
\* selected, goes to the backend with an empty context and an empty source
\* list, whatever documents are stored.
C11_NoContextWithoutSelection ==
  (last.op = "handleSendMessage" /\ last.ret /\ NothingSelected)
    => \A r \in PendingSends : r.context = "" /\ r.contextSources = <<>>

C11_Witness ==
  /\ last.op = "handleSendMessage"
  /\ last.ret
  /\ dash[last.tab].contextMode = "selected"
  /\ dash[last.tab].selectedDocuments = <<>>
  /\ Len(getDocuments(localStorage)) >= 1
  /\ \E r \in PendingSends : r.context = "" /\ r.contextSources = <<>>

\* the chat request that settled last was sent with the one stored document
\* as its context, and no message was stored before it settled
OneDocumentOneMessage ==
  /\ last.op = "ChatSettled"
  /\ getChatHistory(last.ret.before) = <<>>
  /\ Len(getDocuments(last.ret.before)) = 1
  /\ last.ret.request.contextSources =
       <<[id |-> getDocuments(last.ret.before)[1].id,
          filename |-> getDocuments(last.ret.before)[1].filename]>>
ListsTheDocument(msg) ==
  Field(msg, "context_documents") =
    <<JSONstringify(<<[id |-> getDocuments(last.ret.before)[1].id,
                       filename |-> getDocuments(last.ret.before)[1].filename]>>)>>

\* C12, as claimed: after guest mode is entered, one document uploaded and
\* one message sent with that document as context, the chat history holds
\* exactly one message and its context_documents lists the document, whatever
\* the backend answered.
C12_ScenarioEveryOutcome ==
  OneDocumentOneMessage
    => /\ Len(getChatHistory(localStorage)) = 1
       /\ ListsTheDocument(getChatHistory(localStorage)[1])

\* C12, amended: the chat history holds exactly one message, for the text
\* sent; its context_documents lists the document when the backend answered
\* with success and is absent when the request failed.
C12_ScenarioByOutcome ==
  OneDocumentOneMessage
    => /\ Len(getChatHistory(localStorage)) = 1
       /\ getChatHistory(localStorage)[1].message = last.ret.request.message
       /\ IF last.ret.outcome.kind = "ok"
          THEN ListsTheDocument(getChatHistory(localStorage)[1])
          ELSE Field(getChatHistory(localStorage)[1], "context_documents") = Undefined

C12_Witness ==
  /\ OneDocumentOneMessage
  /\ last.ret.outcome.kind = "ok"
  /\ dash[last.tab].contextMode = "all"
  /\ Len(getChatHistory(localStorage)) = 1
  /\ ListsTheDocument(getChatHistory(localStorage)[1])

\* C13: clearAllData leaves guestDocuments, guestChatHistory and guestMode
\* absent whatever was stored, does not raise, also when the keys are absent
\* already, and applied once more changes nothing.
C13_ClearAllIdempotent ==
  last.op = "clearAllData"
    => /\ ~last.ret.raised
       /\ TornDown(localStorage)
       /\ localStorage = clearAllData(last.ret.before)
       /\ clearAllData(clearAllData(last.ret.before)) = clearAllData(last.ret.before)

C13_Witness ==
  /\ last.op = "clearAllData"
  /\ \A k \in GuestKeys : getItem(last.ret.before, k) # Absent
  /\ TornDown(localStorage)

Apology == "I apologize, but I encountered an error while processing your request: "
BackendFailed == last.op = "ChatSettled" /\ last.ret.outcome.kind \in {"status", "network"}

\* C14: when the chat backend is unreachable or answers a non-success status,
\* generateAIResponse resolves with the apology text, context_used false and
\* no sources, nothing is raised, and exactly one message with that text is
\* appended to the stored history.
C14_BackendFailureFallsBack ==
  BackendFailed
    => /\ startsWith(last.ret.result.response, Apology)
       /\ ~last.ret.result.context_used
       /\ last.ret.result.context_sources = <<>>
       /\ ~last.ret.raised
       /\ Appended(getChatHistory(localStorage), getChatHistory(last.ret.before),
                   last.ret.created)
       /\ last.ret.created.message = last.ret.request.message
       /\ last.ret.created.response = last.ret.result.response
       /\ Field(last.ret.created, "context_documents") = Undefined

C14_Witness ==
  /\ BackendFailed
  /\ last.ret.outcome.kind = "network"
  /\ Len(last.ret.request.contextSources) > 0
  /\ Len(getChatHistory(localStorage)) = Len(getChatHistory(last.ret.before)) + 1

\* C15: neither generateAIResponse nor extractTextFromFile rejects, whatever
\* the backend and the local file read do: a failed chat resolves with the
\* apology text, a failed extraction with the text read locally or with the
\* bracketed error string.
C15_NothingThrownPastFacade ==
  /\ BackendFailed => startsWith(last.ret.result.response, Apology)
  /\ last.op = "ExtractSettled" => last.ret.settled = "resolved"

IsPlainText(file) ==
  startsWith(file.type, "text/") \/ endsWith(toLowerCase(file.name), ".txt")
ExtractionFailed ==
  last.op = "ExtractSettled" /\ last.ret.outcome.kind \in {"status", "network"}

\* C16: when the extraction backend fails, the upload still appends exactly
\* one document, named after the file: a plain-text file with the text read
\* locally as its content, any other file with the bracketed error string
\* naming the file.
C16_UploadSurvivesExtractionFailure ==
  ExtractionFailed
    => LET was == getDocuments(last.ret.before)
           docs == getDocuments(localStorage)
       IN /\ Len(docs) = Len(was) + 1
          /\ SubSeq(docs, 1, Len(was)) = was
          /\ docs[Len(docs)].filename = last.ret.file.name
          /\ IF IsPlainText(last.ret.file)
             THEN docs[Len(docs)].content = last.ret.file.text
             ELSE startsWith(docs[Len(docs)].content,
                             "[Error extracting text from " \o last.ret.file.name \o "]")

\* a storage call of the lifecycle handler that ran last raised: every call
\* with storage disabled, the setItem of Hide in guest mode with the quota
\* exhausted
LifecycleOps == {"Hide", "Resume", "Unload"}
StorageFailedInHandler ==
  /\ last.op \in LifecycleOps
  /\ \/ storage = "disabled"
     \/ storage = "full" /\ last.op = "Hide" /\ GuestFlag(last.ret.before)

\* C17: when a storage call raises, Hide, Resume and Unload complete without
\* raising and leave storage as it was.
C17_LifecycleToleratesStorageFault ==
  StorageFailedInHandler
    => /\ ~last.ret.raised
       /\ localStorage = last.ret.before

\* C18: getDocuments and getChatHistory return the empty sequence when
\* storage cannot be read, the slot is absent or its text is not JSON, and
\* the stored records in stored order otherwise; storage is left as it was.
C18_ListsNeverFail ==
  last.op \in {"getDocuments", "getChatHistory"}
    => LET slot == getItem(last.ret.before, last.ret.key)
           value == last.ret.value
       IN /\ localStorage = last.ret.before
          /\ IF storage = "disabled" \/ slot = Absent THEN value = <<>>
             ELSE IF ~IsJSON(slot[1]) THEN value = <<>>
             ELSE /\ Len(value) = Len(slot[1].json)
                  /\ \A i \in 1..Len(value) : DropUndefined(value[i]) = slot[1].json[i]

C18_Witness ==
  /\ last.op = "getDocuments"
  /\ storage = "ok"
  /\ getItem(last.ret.before, documentsKey) = <<Unparseable>>
  /\ last.ret.value = <<>>

\* C19: deleteDocument returns false exactly when the write of the filtered
\* collection fails, and storage is then as it was; confirmDelete takes the
\* document off the displayed list and the selection when true was returned
\* and leaves both alone when false was.
C19_DeleteReportsWriteFailure ==
  last.op \in {"confirmDelete", "deleteDocument"}
    => /\ last.ret.success <=> storage = "ok"
       /\ ~last.ret.success => localStorage = last.ret.before
       /\ last.op = "confirmDelete"
            => IF last.ret.success
               THEN /\ parseInt(last.ret.id) \notin DisplayedIds(last.tab)
                    /\ ~includes(dash[last.tab].selectedDocuments, parseInt(last.ret.id))
               ELSE /\ dash[last.tab].documents = last.ret.shown
                    /\ dash[last.tab].selectedDocuments = last.ret.selected

C19_Witness ==
  /\ last.op = "confirmDelete"
  /\ ~last.ret.success
  /\ storage = "full"
  /\ last.ret.id \in IdsOf(getDocuments(localStorage))
  /\ parseInt(last.ret.id) \in DisplayedIds(last.tab)
  /\ includes(dash[last.tab].selectedDocuments, parseInt(last.ret.id))

\* C20: when a send completes, the displayed list has the pending entry of
\* that message replaced in place by the final one, which has a response;
\* every other entry shown before is still shown, whatever was appended while
\* the request was in flight.
C20_PendingCollapsesInPlace ==
  (last.op = "ChatSettled" /\ last.ret.request.live)
    => LET old == last.ret.shown
           new == dash[last.tab].messages
           pending == last.ret.request.pending[1]
       IN /\ Len(new) = Len(old)
          /\ \A j \in 1..Len(new) : new[j] # pending
          /\ \A i \in 1..Len(old) :
               old[i] # pending => \E j \in 1..Len(new) : new[j] = old[i]
          /\ \E j \in 1..Len(new) :
               /\ new[j].message = last.ret.request.message
               /\ new[j].response = last.ret.result.response
               /\ new[j].response # ""

\* the records of a collection whose id differs from the given one, in
\* their stored order
Without(records, id) ==
  LET I == {i \in 1..Len(records) : records[i].id # id}
  IN [k \in 1..Cardinality(I) |->
        records[CHOOSE i \in I : Cardinality({j \in I : j < i}) = k - 1]]

SameSlot(ls, was, k) == getItem(ls, k) = getItem(was, k)

\* C21: within one tab no update is lost. Every upload that completes adds
\* its document at the end of the documents stored at that moment, every
\* send that completes adds its message at the end of the history stored at
\* that moment, and a delete leaves the stored documents without the
\* deleted id in their order; none of the three touches the other
\* collection. By induction the stored collections are the completed
\* additions in completion order minus the deleted documents.
C21_NoLostUpdate ==
  /\ (last.op = "ExtractSettled" /\ last.ret.settled = "resolved"
        /\ ~last.ret.raised) =>
       /\ Appended(getDocuments(localStorage),
                   getDocuments(last.ret.before), last.ret.created)
       /\ last.ret.created.filename = last.ret.file.name
       /\ last.ret.created.content = last.ret.value
       /\ SameSlot(localStorage, last.ret.before, chatHistoryKey)
  /\ (last.op = "ChatSettled" /\ ~last.ret.raised) =>
       /\ Appended(getChatHistory(localStorage),
                   getChatHistory(last.ret.before), last.ret.created)
       /\ last.ret.created.message = last.ret.request.message
       /\ SameSlot(localStorage, last.ret.before, documentsKey)
  /\ (last.op = "confirmDelete" /\ last.ret.success) =>
       /\ getDocuments(localStorage)
            = Without(getDocuments(last.ret.before), last.ret.id)
       /\ SameSlot(localStorage, last.ret.before, chatHistoryKey)

\* an upload completes while a send is in flight and adds to a collection
\* that already holds a document
C21_Witness ==
  /\ last.op = "ExtractSettled"
  /\ last.ret.settled = "resolved"
  /\ \E r \in inflight : r.kind = "chat" /\ r.tab = last.tab
  /\ Len(getDocuments(last.ret.before)) > 0
  /\ Len(getDocuments(localStorage)) = Len(getDocuments(last.ret.before)) + 1

\* C22: two tabs are not coordinated. A saveDocument call that finishes
\* writes what its tab read plus its own document and reports no failure,
\* whatever another tab wrote in between; so the last writer's array stands.
C22_LastWriterWins ==
  last.op = "FinishSaveDocument" =>
    /\ ~last.ret.raised
    /\ getDocuments(localStorage)
         = Append(getDocuments(last.ret.read), last.ret.created)
    /\ \A k \in Keys \ {documentsKey} : SameSlot(localStorage, last.ret.before, k)

\* the slot held the other tab's document, written after this tab's read;
\* after this tab's write it holds this tab's document alone
C22_Witness ==
  /\ last.op = "FinishSaveDocument"
  /\ ~last.ret.raised
  /\ getDocuments(last.ret.read) = <<>>
  /\ Len(getDocuments(last.ret.before)) = 1
  /\ getDocuments(last.ret.before)[1].filename # last.ret.created.filename
  /\ getDocuments(localStorage) = <<last.ret.created>>

\* C23: hiding the page stores the current time under guestModeLastActive
\* exactly when the guestMode flag is 'true', over whatever timestamp was
\* there, and changes no other slot (collections and flag included); read
\* back, the stored timestamp is the time of this Hide, so the time elapsed
\* since it is zero at that moment.
C23_HideStampsLastActive ==
  last.op = "Hide" =>
    /\ \A k \in Keys \ {"guestModeLastActive"} :
         SameSlot(localStorage, last.ret.before, k)
    /\ IF GuestFlag(last.ret.before)
       THEN /\ getItem(localStorage, "guestModeLastActive") = <<toString(now)>>
            /\ ElapsedSince(localStorage) = 0
       ELSE SameSlot(localStorage, last.ret.before, "guestModeLastActive")

\* a guest page is hidden for the second time, at a later moment
C23_Witness ==
  /\ last.op = "Hide"
  /\ GuestFlag(last.ret.before)
  /\ getItem(last.ret.before, "guestModeLastActive") # Absent
  /\ ElapsedSince(last.ret.before) > 0
  /\ Len(getDocuments(localStorage)) > 0

SyntheticIdentity ==
  [user |-> <<[id |-> -1, email |-> "guest@example.com", full_name |-> "Guest User"]>>,
   isGuestMode |-> TRUE]

\* C24: activating guest mode sets the guestMode flag to 'true' and makes
\* the fixed synthetic identity the current user; it writes no other slot
\* (token and user included) and starts no request. A page that starts
\* while the stored flag is 'true' presents the same identity.
C24_ActivatePresentsGuestIdentity ==
  /\ (last.op = "enterGuestMode" /\ ~last.ret.raised) =>
       /\ getItem(localStorage, "guestMode") = <<"true">>
       /\ auth[last.tab] = SyntheticIdentity
       /\ \A k \in Keys \ {"guestMode"} : SameSlot(localStorage, last.ret.before, k)
       /\ inflight = last.ret.requests
  /\ (last.op \in {"OpenTab", "Reload"} /\ page[last.tab] = "open"
        /\ GuestFlag(localStorage)) =>
       auth[last.tab] = SyntheticIdentity

\* guest mode is activated in a tab while a sign-in made in the other tab
\* has its token and user stored
C24_Witness ==
  /\ last.op = "enterGuestMode"
  /\ ~GuestFlag(last.ret.before)
  /\ GuestFlag(localStorage)
  /\ getItem(localStorage, "token") # Absent
  /\ auth[last.tab] = SyntheticIdentity

\* a second tab starts while the flag is stored
C24_StartsAsGuest ==
  /\ last.op = "OpenTab"
  /\ GuestFlag(localStorage)
  /\ auth[last.tab] = SyntheticIdentity

\* the amount in front of a unit, read back as a number of tenths; NaN
\* unless it is digits, a point and one digit
TenthsOf(text, unit) ==
  LET amount == SubSeq(text, 1, Len(text) - Len(unit))
      whole == SubSeq(amount, 1, Len(amount) - 2)
      tenth == SubSeq(amount, Len(amount), Len(amount))
  IN IF /\ endsWith(text, unit)
        /\ Len(amount) >= 3
        /\ SubSeq(amount, Len(amount) - 1, Len(amount) - 1) = "."
        /\ parseInt(whole) # NaN /\ toString(parseInt(whole)) = whole
        /\ parseInt(tenth) # NaN
     THEN 10 * parseInt(whole) + parseInt(tenth)
     ELSE NaN

\* text gives total / unitSize to the nearest tenth, followed by the unit
InUnit(text, total, unitSize, unit) ==
  LET tenths == TenthsOf(text, unit)
      error == 10 * total - unitSize * tenths
  IN tenths # NaN /\ 2 * error <= unitSize /\ 2 * error >= -unitSize

ScaledEstimate(text, total) ==
  /\ total < 1024 => text = toString(total) \o " bytes"
  /\ (total >= 1024 /\ total <= 1048575) => InUnit(text, total, 1024, " KB")
  /\ total >= 1048576 => InUnit(text, total, 1048576, " MB")
  /\ total = 1023 => text = "1023 bytes"
  /\ total = 1024 => text = "1.0 KB"

\* C25: the storage estimate is made from the sum of the serialized sizes
\* of the two collections: below 1024 it is the total followed by "bytes",
\* from 1024 to 1,048,575 the total in KB with one decimal, from 1,048,576
\* on the total in MB with one decimal.
C25_EstimateScalesUnits ==
  /\ last.op = "estimatedSize" =>
       ScaledEstimate(last.ret.value, last.ret.totalBytes)
  /\ last.op = "getStorageInfo" =>
       /\ ScaledEstimate(last.ret.value.estimatedSize,
                         JSONstringifyLength(getDocuments(localStorage))
                           + JSONstringifyLength(getChatHistory(localStorage)))
       /\ last.ret.value.documentsCount = Len(getDocuments(localStorage))
       /\ last.ret.value.chatMessagesCount = Len(getChatHistory(localStorage))

\* one stored document brings the total to exactly 1024
C25_Witness ==
  /\ last.op = "getStorageInfo"
  /\ last.ret.value.documentsCount = 1
  /\ last.ret.value.chatMessagesCount = 0
  /\ last.ret.value.estimatedSize = "1.0 KB"

C25_StoredBelowThreshold ==
  /\ last.op = "getStorageInfo"
  /\ last.ret.value.estimatedSize = "1023 bytes"

C25_LargestInKB ==
  /\ last.op = "estimatedSize"
  /\ last.ret.totalBytes = 1048575
  /\ last.ret.value = "1024.0 KB"

HasContextDocuments(m) == "context_documents" \in DOMAIN m

\* C26: a stored chat message has no context_documents property when no
\* context was assembled for its request; when it has the property, the
\* property is the serialized list of the sources assembled for the
\* request, in their order, and that list is never empty.
C26_ContextDocumentsOnlyWithContext ==
  /\ \A i \in 1..Len(getChatHistory(localStorage)) :
       HasContextDocuments(getChatHistory(localStorage)[i]) =>
         Len(getChatHistory(localStorage)[i].context_documents[1].json) > 0
  /\ (last.op = "ChatSettled" /\ ~last.ret.raised) =>
       LET history == getChatHistory(localStorage)
           stored == history[Len(history)]
       IN /\ Len(history) > 0
          /\ last.ret.request.contextSources = <<>> => ~HasContextDocuments(stored)
          /\ HasContextDocuments(stored) =>
               /\ stored.context_documents[1].json = last.ret.request.contextSources
               /\ SourcesText(stored.context_documents[1].json)
                    = SourcesText(last.ret.request.contextSources)

\* a message answered with two documents in context is stored with both
\* sources
C26_Witness ==
  /\ last.op = "ChatSettled"
  /\ Len(last.ret.request.contextSources) = 2
  /\ LET history == getChatHistory(localStorage)
     IN /\ Len(history) = 1
        /\ HasContextDocuments(history[1])
        /\ Len(history[1].context_documents[1].json) = 2

\* a message is stored without the property after one stored with it
C26_StoredWithout ==
  /\ last.op = "ChatSettled"
  /\ last.ret.request.contextSources = <<>>
  /\ LET history == getChatHistory(localStorage)
     IN /\ Len(history) = 2
        /\ HasContextDocuments(history[1])
        /\ ~HasContextDocuments(history[2])

\* the steps whose code reaches the two collections through saveDocument,
\* deleteDocument, saveChatMessage or clearAllData
ThroughAccessor ==
  {"ExtractSettled", "ChatSettled", "confirmDelete", "Unload", "Reload", "Resume",
   "saveDocument", "deleteDocument", "saveChatMessage", "clearAllData"}

\* C27: the guestDocuments and guestChatHistory slots change only in steps
\* that go through the accessor's saveDocument, deleteDocument,
\* saveChatMessage or clearAllData; no other code writes or removes them.
C27_OnlyAccessorChangesCollections ==
  [][(\E k \in {documentsKey, chatHistoryKey} : localStorage'[k] # localStorage[k])
       => last'.op \in ThroughAccessor]_vars

\* C29: deleteDocument(id) with an id some stored document has removes the
\* documents with that id and nothing else: getDocument(id) finds nothing
\* afterwards, the other documents are stored as they were, in their order,
\* and no other slot (the chat history included) changes.
C29_DeleteRemovesExactlyMatches ==
  (last.op = "deleteDocument"
     /\ last.ret.id \in IdsOf(getDocuments(last.ret.before))) =>
    /\ last.ret.success
    /\ getDocument(localStorage, last.ret.id) = <<>>
    /\ getDocuments(localStorage)
         = Without(getDocuments(last.ret.before), last.ret.id)
    /\ \A k \in Keys \ {documentsKey} : SameSlot(localStorage, last.ret.before, k)

\* one of two stored documents is deleted while a chat message is stored
C29_Witness ==
  /\ last.op = "deleteDocument"
  /\ Len(getDocuments(last.ret.before)) = 2
  /\ Len(getDocuments(localStorage)) = 1
  /\ getDocuments(localStorage)[1].id # last.ret.id
  /\ Len(getChatHistory(localStorage)) = 1

\* a tab that can take the Continue-as-Guest step now, or after opening
CanActivate(t) ==
  \/ ENABLED enterGuestMode(t)
  \/ page[t] = "closed" /\ ENABLED OpenTab(t)

\* C28: the lifecycle has no terminal state. After a logout, an expiry or
\* an unload, guest mode can be activated again; and a guest session that
\* has just been activated has no stored document and no stored chat
\* message, and shows none.
C28_SessionsRestartEmpty ==
  /\ (last.op \in {"logout", "Unload"} \/ (last.op = "Resume" /\ last.ret.reload)) =>
       (~last.ret.raised => CanActivate(last.tab))
  /\ (last.op = "enterGuestMode" /\ ~last.ret.raised) =>
       /\ getDocuments(localStorage) = <<>>
       /\ getChatHistory(localStorage) = <<>>
       /\ dash[last.tab].documents = <<>>
       /\ dash[last.tab].messages = <<>>

\* C30: teardown is complete under every interleaving. Whenever the
\* guestMode flag is absent, guestDocuments and guestChatHistory are absent
\* too, also when a send or an upload was in flight at logout, expiry or
\* unload and is answered afterwards.
C30_TeardownComplete ==
  getItem(localStorage, "guestMode") = Absent => TornDown(localStorage)

\* a guest session was activated by the step just taken, in a visible page
JustActivated ==
  /\ last.op = "enterGuestMode"
  /\ ~last.ret.raised
  /\ ~GuestFlag(last.ret.before)
  /\ GuestFlag(localStorage)
  /\ visibility[last.tab] = "visible"

\* C31: Resume tears down a guest session only if that session's own page
\* was hidden for more than 30 minutes. A session activated by the previous
\* step has had no page hidden for any time at all, so no Resume, whatever
\* timestamp is stored, tears it down in the next step.
C31_StaleStampSparesFreshSession ==
  [][JustActivated =>
       ~(last'.op = "Resume" /\ last'.ret.reload
           /\ ~GuestFlag(localStorage'))]_vars

\* nothing of tab t is awaiting an answer
Quiet(t) ==
  /\ \A r \in inflight : r.tab # t
  /\ ~dash[t].isUploading
  /\ ~dash[t].isLoading

\* C32: in a single guest tab with no upload, send or delete in progress,
\* the displayed documents are the stored documents, one for one and in
\* order (the displayed id being the stored id read as a number), and
\* every selected id is the id of a displayed document.
C32_DisplayMatchesStorage ==
  (Guest("A") /\ Quiet("A")) =>
    LET shown == dash["A"].documents
        stored == getDocuments(localStorage)
    IN /\ Len(shown) = Len(stored)
       /\ \A i \in 1..Len(shown) :
            /\ shown[i].id = parseInt(stored[i].id)
            /\ shown[i].filename = stored[i].filename
       /\ \A k \in 1..Len(dash["A"].selectedDocuments) :
            dash["A"].selectedDocuments[k] \in DisplayedIds("A")

\* C33: guest mode and authenticated mode exclude each other in storage:
\* the guestMode flag and a token are never both present.
C33_FlagExcludesToken ==
  ~(getItem(localStorage, "guestMode") # Absent
      /\ getItem(localStorage, "token") # Absent)

\* C34: Hide, Resume and Unload leave the token and user slots as they
\* were; when the guestMode flag is not 'true' they change no slot at all
\* and reload nothing.
C34_LifecycleSparesAccountState ==
  last.op \in {"Hide", "Resume", "Unload"} =>
    /\ SameSlot(localStorage, last.ret.before, "token")
    /\ SameSlot(localStorage, last.ret.before, "user")
    /\ ~GuestFlag(last.ret.before) =>
         /\ localStorage = last.ret.before
         /\ last.op = "Resume" => ~last.ret.reload

\* a signed-in page with an old guest timestamp in storage comes back
\* after more than 30 minutes
C34_Witness ==
  /\ last.op = "Resume"
  /\ ~GuestFlag(last.ret.before)
  /\ getItem(last.ret.before, "token") # Absent
  /\ getItem(last.ret.before, "guestModeLastActive") # Absent
  /\ ElapsedSince(last.ret.before) > ExpiryMs

\* a guest page is closed while another tab's token is stored
C34_UnloadKeepsToken ==
  /\ last.op = "Unload"
  /\ GuestFlag(last.ret.before)
  /\ getItem(localStorage, "token") # Absent

\* the send requests of tab t that have not been answered yet
SendsInFlight(t) == {r \in inflight : r.kind = "chat" /\ r.tab = t}

\* a submit that the handler turns away changes nothing; one it accepts
\* starts one request and stores nothing yet; an answered request adds one
\* entry to the stored history
SubmitSteps ==
  /\ (last'.op = "handleSendMessage" /\ last'.ret = FALSE) =>
       UNCHANGED <<dash, localStorage, inflight>>
  /\ (last'.op = "handleSendMessage" /\ last'.ret = TRUE) =>
       /\ Cardinality(inflight') = Cardinality(inflight) + 1
       /\ UNCHANGED localStorage
  /\ (last'.op = "ChatSettled" /\ ~last'.ret.raised) =>
       Len(getChatHistory(localStorage')) = Len(getChatHistory(localStorage)) + 1

\* C35: at most one send request is in flight per tab; a submit made while
\* one is pending, or with a blank input, changes neither the displayed
\* messages nor the stored history and sends nothing, so each accepted
\* submit adds exactly one entry to the stored history.
C35_OneSendInFlight ==
  /\ [](\A t \in Tabs : Cardinality(SendsInFlight(t)) <= 1)
  /\ [][SubmitSteps]_vars

====
